---- MODULE Spec2Model ----
(***************************************************************************)
(* Retroactive payroll adjustments (src/src/App.jsx): the period segmenter *)
(* getPeriods and the adjustment calculator calculateRetroactive.          *)
(*                                                                         *)
(* Strings are sequences of one-character strings, so that parsing         *)
(* (split, Number) and formatting (String, padStart) are computed the way  *)
(* the code computes them.  A JavaScript value is a record with a type tag *)
(* t, a number n and a string s; NaN and undefined have their own tags.    *)
(***************************************************************************)
EXTENDS Integers, Sequences, FiniteSets

VARIABLES
    data,          \* the record handed to calculateRetroactive
    payrollType,   \* 'mensual' | 'quincenal'
    pc,            \* position of the call
    sY, sM, sD,    \* parseDate(startStr)
    eY, eM, eD,    \* parseDate(endStr)
    currentY,      \* the month cursor of the walking loop
    currentM,
    periods,       \* getPeriods' array of {start, end}
    result,        \* what calculateRetroactive returns
    calls,         \* the calls made so far: arguments as given, and outcome
    \* the state of the component App
    activeTab,     \* 'individual' | 'mass'
    appPayrollType, \* App's payrollType: 'mensual' | 'quincenal'
    results,       \* detail lines shown
    reportData,    \* summary rows for the report
    isProcessing,
    error,         \* null or a message
    fieldErrors,   \* the required fields found empty
    formData,      \* the individual form
    upload,        \* the handleFileUpload activations waiting for the file
    invoked        \* the activation that ended last, and the calls it made

coreVars == <<data, payrollType, pc, sY, sM, sD, eY, eM, eD,
              currentY, currentM, periods, result, calls>>

appVars == <<activeTab, appPayrollType, results, reportData, isProcessing,
             error, fieldErrors, formData, upload, invoked>>

vars == <<coreVars, appVars>>

----------------------------------------------------------------------------
(* JavaScript values *)

Num(n) == [t |-> "number", n |-> n, s |-> <<>>]
NaN == [t |-> "NaN", n |-> 0, s |-> <<>>]
Undefined == [t |-> "undefined", n |-> 0, s |-> <<>>]
Str(chars) == [t |-> "string", n |-> 0, s |-> chars]

DigitChars == <<"0", "1", "2", "3", "4", "5", "6", "7", "8", "9">>

IsDigit(c) == \E i \in 1..10 : DigitChars[i] = c

DigitVal(c) == (CHOOSE i \in 1..10 : DigitChars[i] = c) - 1

RECURSIVE DigitsValue(_)
DigitsValue(chars) ==
    IF chars = <<>> THEN 0
    ELSE 10 * DigitsValue(SubSeq(chars, 1, Len(chars) - 1)) + DigitVal(chars[Len(chars)])

AllDigits(chars) == \A i \in 1..Len(chars) : IsDigit(chars[i])

\* Number(string): the empty string is 0, a run of digits (with an optional
\* sign) is its value, anything else is NaN.
StringToNumber(chars) ==
    IF chars = <<>> THEN Num(0)
    ELSE IF AllDigits(chars) THEN Num(DigitsValue(chars))
    ELSE IF chars[1] \in {"-", "+"} /\ Len(chars) > 1 /\ AllDigits(Tail(chars))
         THEN Num((IF chars[1] = "-" THEN -1 ELSE 1) * DigitsValue(Tail(chars)))
    ELSE NaN

\* ToNumber
ToNumber(v) ==
    CASE v.t = "number" -> v
      [] v.t = "string" -> StringToNumber(v.s)
      [] OTHER -> NaN

\* ToBoolean
Truthy(v) ==
    CASE v.t = "number" -> v.n # 0
      [] v.t = "string" -> v.s # <<>>
      [] OTHER -> FALSE

\* isNaN(v)
isNaN(v) == ToNumber(v).t = "NaN"

\* a < b, a <= b, a > b: false as soon as one side is NaN
JsLt(a, b) ==
    LET x == ToNumber(a)
        y == ToNumber(b)
    IN  x.t = "number" /\ y.t = "number" /\ x.n < y.n

JsLe(a, b) ==
    LET x == ToNumber(a)
        y == ToNumber(b)
    IN  x.t = "number" /\ y.t = "number" /\ x.n <= y.n

JsGt(a, b) == JsLt(b, a)

\* a === b
StrictEq(a, b) ==
    /\ a.t = b.t
    /\ a.t # "NaN"
    /\ a.t = "number" => a.n = b.n
    /\ a.t = "string" => a.s = b.s

\* a + b and a - b on numbers
JsAdd(a, b) ==
    LET x == ToNumber(a)
        y == ToNumber(b)
    IN  IF x.t = "number" /\ y.t = "number" THEN Num(x.n + y.n) ELSE NaN

JsSub(a, b) ==
    LET x == ToNumber(a)
        y == ToNumber(b)
    IN  IF x.t = "number" /\ y.t = "number" THEN Num(x.n - y.n) ELSE NaN

RECURSIVE NatToChars(_)
NatToChars(n) ==
    IF n < 10 THEN <<DigitChars[n + 1]>>
    ELSE NatToChars(n \div 10) \o <<DigitChars[(n % 10) + 1]>>

\* String(v) for a number
String(v) ==
    CASE v.t = "number" ->
            IF v.n < 0 THEN <<"-">> \o NatToChars(-v.n) ELSE NatToChars(v.n)
      [] v.t = "string" -> v.s
      [] v.t = "NaN" -> <<"N", "a", "N">>
      [] OTHER -> <<"u", "n", "d", "e", "f", "i", "n", "e", "d">>

\* chars.padStart(2, '0')
padStart2(chars) ==
    IF Len(chars) >= 2 THEN chars
    ELSE IF Len(chars) = 1 THEN <<"0">> \o chars
    ELSE <<"0", "0">>

\* str.includes(c)
Includes(chars, c) == \E i \in 1..Len(chars) : chars[i] = c

\* str.split(sep)
RECURSIVE Split(_, _)
Split(chars, sep) ==
    IF Includes(chars, sep)
    THEN LET i == CHOOSE k \in 1..Len(chars) :
                      chars[k] = sep /\ \A j \in 1..(k - 1) : chars[j] # sep
         IN  <<SubSeq(chars, 1, i - 1)>> \o Split(SubSeq(chars, i + 1, Len(chars)), sep)
    ELSE <<chars>>

\* parts.map(Number)
MapNumber(pieces) == [i \in 1..Len(pieces) |-> StringToNumber(pieces[i])]

\* parts[i] (0-based in the source, 1-based here): undefined past the end
At(parts, i) == IF i <= Len(parts) THEN parts[i] ELSE Undefined

----------------------------------------------------------------------------
(* getPeriods *)

YearThreshold == 1000

\* parseDate without the DD-MM-YYYY fallback: a hyphenated string is always
\* read as YYYY-MM-DD
parseDate_NoFallback(str) ==
    IF str.t # "string" THEN <<Num(0), Num(0), Num(0)>>
    ELSE IF Includes(str.s, "-")
    THEN LET parts == MapNumber(Split(str.s, "-"))
         IN  <<At(parts, 1), At(parts, 2), At(parts, 3)>>
    ELSE IF Includes(str.s, "/")
    THEN LET parts == MapNumber(Split(str.s, "/"))
         IN  <<At(parts, 3), At(parts, 2), At(parts, 1)>>
    ELSE <<Num(0), Num(0), Num(0)>>

\* parseDate(str): [year, month, day]
parseDate(str) ==
    IF str.t # "string" THEN <<Num(0), Num(0), Num(0)>>
    ELSE IF Includes(str.s, "-")
    THEN LET parts == MapNumber(Split(str.s, "-"))
         IN  IF JsGt(parts[1], Num(YearThreshold))
             THEN <<At(parts, 1), At(parts, 2), At(parts, 3)>>
             ELSE <<At(parts, 3), At(parts, 2), At(parts, 1)>>
    ELSE IF Includes(str.s, "/")
    THEN LET parts == MapNumber(Split(str.s, "/"))
         IN  <<At(parts, 3), At(parts, 2), At(parts, 1)>>
    ELSE <<Num(0), Num(0), Num(0)>>

IsLeap(y) == (y % 4 = 0 /\ y % 100 # 0) \/ y % 400 = 0

\* DaysOf without the leap years
DaysOf_NoLeap(y, m) ==
    IF m = 1 THEN 28
    ELSE IF m \in {3, 5, 8, 10} THEN 30
    ELSE 31

\* the number of days of month m (0-indexed, 0..11) of year y
DaysOf(y, m) ==
    IF m = 1 THEN (IF IsLeap(y) THEN 29 ELSE 28)
    ELSE IF m \in {3, 5, 8, 10} THEN 30
    ELSE 31

\* getDaysInMonth written new Date(year, month, 0): the last day of the
\* month before
getDaysInMonth_MonthBefore(year, month) ==
    IF year.t # "number" \/ month.t # "number" THEN NaN
    ELSE LET y == IF year.n \in 0..99 THEN 1900 + year.n ELSE year.n
             k == y * 12 + month.n - 1
         IN  Num(DaysOf(k \div 12, k % 12))

\* new Date(year, month + 1, 0).getDate(): day 0 of the next month is the
\* last day of this one; Date normalises a month outside 0..11 into the
\* neighbouring years and reads a year 0..99 as 1900 + year; a NaN
\* argument gives an invalid date, whose getDate() is NaN.
getDaysInMonth(year, month) ==
    IF year.t # "number" \/ month.t # "number" THEN NaN
    ELSE LET y == IF year.n \in 0..99 THEN 1900 + year.n ELSE year.n
             k == y * 12 + month.n
         IN  Num(DaysOf(k \div 12, k % 12))

\* fmt(d) of the iteration at (cY, cM)
fmt(cY, cM, d) ==
    String(cY) \o <<"-">> \o padStart2(String(JsAdd(cM, Num(1))))
                 \o <<"-">> \o padStart2(String(d))

\* The locals of one getPeriods activation, as a record.
Frame ==
    [sY |-> sY, sM |-> sM, sD |-> sD, eY |-> eY, eM |-> eM, eD |-> eD,
     type |-> payrollType, currentY |-> currentY, currentM |-> currentM,
     periods |-> periods]

startMonthIndex(f) == JsSub(f.sM, Num(1))

endMonthIndex(f) == JsSub(f.eM, Num(1))

\* currentY === sY && currentM === startMonthIndex
InStartMonth(f) ==
    StrictEq(f.currentY, f.sY) /\ StrictEq(f.currentM, startMonthIndex(f))

\* currentY === eY && currentM === endMonthIndex
InEndMonth(f) ==
    StrictEq(f.currentY, f.eY) /\ StrictEq(f.currentM, endMonthIndex(f))

\* the condition of the while loop, false from the end month on
LoopCond_BeforeEndMonth(f) ==
    \/ JsLt(f.currentY, f.eY)
    \/ StrictEq(f.currentY, f.eY) /\ JsLt(f.currentM, endMonthIndex(f))

\* the condition of the while loop
LoopCond(f) ==
    \/ JsLt(f.currentY, f.eY)
    \/ StrictEq(f.currentY, f.eY) /\ JsLe(f.currentM, endMonthIndex(f))

\* isFull without the test of the end month
isFull_NoEndCheck(f, daysInMonth) ==
    ~(InStartMonth(f) /\ JsGt(f.sD, Num(1)))

\* isFull without the test of the start month
isFull_NoStartCheck(f, daysInMonth) ==
    ~(InEndMonth(f) /\ JsLt(f.eD, daysInMonth))

isFull(f, daysInMonth) ==
    /\ ~(InStartMonth(f) /\ JsGt(f.sD, Num(1)))
    /\ ~(InEndMonth(f) /\ JsLt(f.eD, daysInMonth))

\* q1Valid with eD < 16 for eD < 15
q1Valid_EndBefore16(f) ==
    /\ ~(InStartMonth(f) /\ JsGt(f.sD, Num(1)))
    /\ ~(InEndMonth(f) /\ JsLt(f.eD, Num(16)))

q1Valid(f) ==
    /\ ~(InStartMonth(f) /\ JsGt(f.sD, Num(1)))
    /\ ~(InEndMonth(f) /\ JsLt(f.eD, Num(15)))

\* q2Valid without the test of the end month
q2Valid_NoEndCheck(f, daysInMonth) ==
    ~(InStartMonth(f) /\ JsGt(f.sD, Num(16)))

q2Valid(f, daysInMonth) ==
    /\ ~(InStartMonth(f) /\ JsGt(f.sD, Num(16)))
    /\ ~(InEndMonth(f) /\ JsLt(f.eD, daysInMonth))

Period(cY, cM, from, to) == [start |-> fmt(cY, cM, from), end |-> fmt(cY, cM, to)]

\* Pushed with the second half pushed before the first
Pushed_SecondHalfFirst(f) ==
    LET daysInMonth == getDaysInMonth(f.currentY, f.currentM)
    IN  IF f.type = "mensual"
        THEN IF isFull(f, daysInMonth)
             THEN <<Period(f.currentY, f.currentM, Num(1), daysInMonth)>>
             ELSE <<>>
        ELSE (IF q2Valid(f, daysInMonth)
              THEN <<Period(f.currentY, f.currentM, Num(16), daysInMonth)>>
              ELSE <<>>)
             \o
             (IF q1Valid(f)
              THEN <<Period(f.currentY, f.currentM, Num(1), Num(15))>>
              ELSE <<>>)

\* what one iteration pushes onto periods
Pushed(f) ==
    LET daysInMonth == getDaysInMonth(f.currentY, f.currentM)
    IN  IF f.type = "mensual"
        THEN IF isFull(f, daysInMonth)
             THEN <<Period(f.currentY, f.currentM, Num(1), daysInMonth)>>
             ELSE <<>>
        ELSE (IF q1Valid(f)
              THEN <<Period(f.currentY, f.currentM, Num(1), Num(15))>>
              ELSE <<>>)
             \o
             (IF q2Valid(f, daysInMonth)
              THEN <<Period(f.currentY, f.currentM, Num(16), daysInMonth)>>
              ELSE <<>>)

\* currentM++; if (currentM > 11) { currentM = 0; currentY++; }
Advance(f) ==
    LET m == JsAdd(f.currentM, Num(1))
    IN  IF JsGt(m, Num(11))
        THEN [f EXCEPT !.currentM = Num(0), !.currentY = JsAdd(f.currentY, Num(1))]
        ELSE [f EXCEPT !.currentM = m]

\* one iteration of the while loop
Body(f) == Advance([f EXCEPT !.periods = f.periods \o Pushed(f)])

\* the two early returns of getPeriods: a falsy argument, or a year that is
\* falsy or NaN after parsing
EarlyReturn(startStr, endStr) ==
    \/ ~Truthy(startStr)
    \/ ~Truthy(endStr)
    \/ LET y1 == parseDate(startStr)[1]
           y2 == parseDate(endStr)[1]
       IN  ~Truthy(y1) \/ ~Truthy(y2) \/ isNaN(y1) \/ isNaN(y2)

\* the locals when the loop is first reached
InitialFrame(startStr, endStr, type) ==
    LET s == parseDate(startStr)
        e == parseDate(endStr)
    IN  [sY |-> s[1], sM |-> s[2], sD |-> s[3],
         eY |-> e[1], eM |-> e[2], eD |-> e[3],
         type |-> type,
         currentY |-> s[1], currentM |-> JsSub(s[2], Num(1)),
         periods |-> <<>>]

\* The engine cannot grow an array without limit: a push past the limit
\* throws (RangeError / out of memory).
ArrayLimit == 80

\* the loop run to its end: the returned array, or the throw of a push
RECURSIVE Walk(_)
Walk(f) ==
    IF ~LoopCond(f) THEN [thrown |-> FALSE, periods |-> f.periods]
    ELSE IF Len(Body(f).periods) > ArrayLimit THEN [thrown |-> TRUE, periods |-> <<>>]
    ELSE Walk(Body(f))

\* getPeriods(startStr, endStr, type) as a function of its arguments
getPeriods(startStr, endStr, type) ==
    IF EarlyReturn(startStr, endStr) THEN [thrown |-> FALSE, periods |-> <<>>]
    ELSE Walk(InitialFrame(startStr, endStr, type))

----------------------------------------------------------------------------
(* calculateRetroactive *)

\* the longest prefix of chars made of digits
RECURSIVE DigitPrefix(_)
DigitPrefix(chars) ==
    IF chars # <<>> /\ IsDigit(chars[1])
    THEN <<chars[1]>> \o DigitPrefix(Tail(chars))
    ELSE <<>>

\* parseFloat(v): the number read from the longest numeric prefix of
\* String(v) (whole numbers here), NaN when there is none
parseFloat(v) ==
    LET chars == String(v)
        neg == chars # <<>> /\ chars[1] = "-"
        body == IF chars # <<>> /\ chars[1] \in {"-", "+"} THEN Tail(chars) ELSE chars
        digits == DigitPrefix(body)
    IN  IF v.t \in {"NaN", "undefined"} \/ digits = <<>> THEN NaN
        ELSE Num((IF neg THEN -1 ELSE 1) * DigitsValue(digits))

\* x || 0
OrZero(v) == IF Truthy(v) THEN v ELSE Num(0)

\* Numbers are IEEE 754 doubles.  Salaries and hours read by parseFloat are
\* whole numbers here and are kept as integers; the products and quotients
\* calculateRetroactive forms from them are kept as doubles, rounded to
\* nearest after every operation as the engine does.

\* Whole numbers beyond the range of one integer are sequences of limbs,
\* least significant first, each in 0..LimbBase-1, without leading zeros.
LimbBits == 15
LimbBase == 2 ^ LimbBits

RECURSIVE BigNorm(_)
BigNorm(x) ==
    IF x # <<>> /\ x[Len(x)] = 0 THEN BigNorm(SubSeq(x, 1, Len(x) - 1)) ELSE x

RECURSIVE BigFromInt(_)
BigFromInt(n) ==
    IF n = 0 THEN <<>> ELSE <<n % LimbBase>> \o BigFromInt(n \div LimbBase)

RECURSIVE BigToInt(_)
BigToInt(x) ==
    IF x = <<>> THEN 0 ELSE x[1] + LimbBase * BigToInt(Tail(x))

RECURSIVE BigAddCarry(_, _, _)
BigAddCarry(x, y, carry) ==
    IF x = <<>> /\ y = <<>> THEN (IF carry = 0 THEN <<>> ELSE <<carry>>)
    ELSE LET a == IF x = <<>> THEN 0 ELSE x[1]
             b == IF y = <<>> THEN 0 ELSE y[1]
             s == a + b + carry
         IN  <<s % LimbBase>> \o
             BigAddCarry(IF x = <<>> THEN x ELSE Tail(x),
                         IF y = <<>> THEN y ELSE Tail(y), s \div LimbBase)

BigAdd(x, y) == BigAddCarry(x, y, 0)

\* x times a limb k
RECURSIVE BigMulLimb(_, _, _)
BigMulLimb(x, k, carry) ==
    IF x = <<>> THEN (IF carry = 0 THEN <<>> ELSE <<carry>>)
    ELSE LET p == x[1] * k + carry
         IN  <<p % LimbBase>> \o BigMulLimb(Tail(x), k, p \div LimbBase)

RECURSIVE BigMul(_, _)
BigMul(x, y) ==
    IF y = <<>> THEN <<>>
    ELSE BigNorm(BigAdd(BigMulLimb(x, y[1], 0), <<0>> \o BigMul(x, Tail(y))))

\* quotient and remainder of the limbs i.. of x by a small b
RECURSIVE BigDivFrom(_, _, _)
BigDivFrom(x, b, i) ==
    IF i > Len(x) THEN [q |-> <<>>, r |-> 0]
    ELSE LET hi == BigDivFrom(x, b, i + 1)
             cur == hi.r * LimbBase + x[i]
         IN  [q |-> <<cur \div b>> \o hi.q, r |-> cur % b]

BigDivSmall(x, b) ==
    LET d == BigDivFrom(x, b, 1) IN [q |-> BigNorm(d.q), r |-> d.r]

RECURSIVE IntBitLen(_)
IntBitLen(n) == IF n = 0 THEN 0 ELSE 1 + IntBitLen(n \div 2)

BigBitLen(x) ==
    IF x = <<>> THEN 0 ELSE LimbBits * (Len(x) - 1) + IntBitLen(x[Len(x)])

\* x times 2^t
BigShiftLeft(x, t) ==
    IF x = <<>> THEN <<>>
    ELSE [i \in 1..(t \div LimbBits) |-> 0] \o BigMulLimb(x, 2 ^ (t % LimbBits), 0)

\* x over 2^t, rounded down, and whether a non-zero bit was dropped
BigShiftRight(x, t) ==
    LET limbs == t \div LimbBits
        low == SubSeq(x, 1, IF limbs < Len(x) THEN limbs ELSE Len(x))
        d == BigDivSmall(SubSeq(x, limbs + 1, Len(x)), 2 ^ (t % LimbBits))
    IN  [q |-> d.q, lost |-> d.r # 0 \/ \E i \in 1..Len(low) : low[i] # 0]

\* A positive Number is [m, e], standing for m * 2^e, with m of at most
\* MantissaBits bits.
MantissaBits == 53

\* the Number nearest to m * 2^e (plus a little more when sticky), ties to
\* the even mantissa
RoundToNumber(m, e, sticky) ==
    LET s == BigBitLen(m) - MantissaBits
    IN  IF s <= 0 THEN [m |-> m, e |-> e]
        ELSE LET sh == BigShiftRight(m, s - 1)
                 d == BigDivSmall(sh.q, 2)
                 odd == d.q # <<>> /\ d.q[1] % 2 = 1
                 up == d.r = 1 /\ (sh.lost \/ sticky \/ odd)
             IN  [m |-> IF up THEN BigAdd(d.q, <<1>>) ELSE d.q, e |-> e + s]

GuardBits == 64

\* a / b for whole a > 0 and small b > 0; also the literal written a/b in
\* decimal
Quotient(a, b) ==
    LET d == BigDivSmall(BigShiftLeft(BigFromInt(a), GuardBits), b)
    IN  RoundToNumber(d.q, -GuardBits, d.r # 0)

\* x * y
Times(x, y) == RoundToNumber(BigMul(x.m, y.m), x.e + y.e, FALSE)

\* Math.round(x): floor(x + 1/2)
MathRound(x) ==
    IF x.e >= 0 THEN BigToInt(BigShiftLeft(x.m, x.e))
    ELSE BigToInt(BigDivSmall(BigAdd(BigShiftRight(x.m, -x.e - 1).q, <<1>>), 2).q)

\* FACTORS with the Night factor of the Day category
FACTORS_NightAsDay == [HED |-> 125, HEN |-> 125, HEFD |-> 205, HEFN |-> 255, RN |-> 35]

\* FACTORS, in hundredths: FACTORS.HED is the literal 1.25
FACTORS == [HED |-> 125, HEN |-> 175, HEFD |-> 205, HEFN |-> 255, RN |-> 35]

HoursPerMonth == 240

\* otMapping with a fifth entry, for the night surcharge
otMapping_WithNightSurcharge ==
    << [key |-> "HED_CANTIDAD", factor |-> FACTORS.HED,
        label |-> "Retroactivo HE diurna",
        reportValKey |-> "HED_valor", reportQtyKey |-> "HED_cantidad"],
       [key |-> "HEN_CANTIDAD", factor |-> FACTORS.HEN,
        label |-> "Retroactivo HE nocturna",
        reportValKey |-> "HEN_valor", reportQtyKey |-> "HEN_cantidad"],
       [key |-> "HEFD_CANTIDAD", factor |-> FACTORS.HEFD,
        label |-> "Retroactivo HE festiva diurna",
        reportValKey |-> "HEFD_valor", reportQtyKey |-> "HEFD_cantidad"],
       [key |-> "HEFN_CANTIDAD", factor |-> FACTORS.HEFN,
        label |-> "Retroactivo HE festiva nocturna",
        reportValKey |-> "HEFN_valor", reportQtyKey |-> "HEFN_cantidad"],
       [key |-> "RN_CANTIDAD", factor |-> FACTORS.RN,
        label |-> "Retroactivo recargo nocturno",
        reportValKey |-> "RN_valor", reportQtyKey |-> "RN_cantidad"] >>

otMapping ==
    << [key |-> "HED_CANTIDAD", factor |-> FACTORS.HED,
        label |-> "Retroactivo HE diurna",
        reportValKey |-> "HED_valor", reportQtyKey |-> "HED_cantidad"],
       [key |-> "HEN_CANTIDAD", factor |-> FACTORS.HEN,
        label |-> "Retroactivo HE nocturna",
        reportValKey |-> "HEN_valor", reportQtyKey |-> "HEN_cantidad"],
       [key |-> "HEFD_CANTIDAD", factor |-> FACTORS.HEFD,
        label |-> "Retroactivo HE festiva diurna",
        reportValKey |-> "HEFD_valor", reportQtyKey |-> "HEFD_cantidad"],
       [key |-> "HEFN_CANTIDAD", factor |-> FACTORS.HEFN,
        label |-> "Retroactivo HE festiva nocturna",
        reportValKey |-> "HEFN_valor", reportQtyKey |-> "HEFN_cantidad"] >>

\* the same from period.end
formattedStartDate_OfEnd(period) ==
    LET p == Split(period.end, "-")
    IN  p[3] \o <<"/">> \o p[2] \o <<"/">> \o p[1]

\* `${pD}/${pM}/${pY}` of period.start.split('-')
formattedStartDate(period) ==
    LET p == Split(period.start, "-")
        part(i) == IF i <= Len(p) THEN p[i]
                   ELSE <<"u", "n", "d", "e", "f", "i", "n", "e", "d">>
    IN  part(3) \o <<"/">> \o part(2) \o <<"/">> \o part(1)

\* the summary row of a period before any amount is written to it
EmptySummary(d, period) ==
    [Periodo |-> formattedStartDate(period),
     NombreCompleto |-> d.NOMBRE,
     NumeroDocumento |-> d.CEDULA,
     CodigoFicha |-> IF Truthy(d.CODIGO_FICHA_COLABORADOR)
                     THEN d.CODIGO_FICHA_COLABORADOR ELSE Str(<<>>),
     Salario |-> 0,
     HEFD_valor |-> 0, HEFD_cantidad |-> 0,
     HED_valor |-> 0, HED_cantidad |-> 0,
     HEN_valor |-> 0, HEN_cantidad |-> 0,
     HEFN_valor |-> 0, HEFN_cantidad |-> 0]

baseDiff(d) == OrZero(parseFloat(d.SUELDO_NUEVO)).n - OrZero(parseFloat(d.SUELDO_ANTERIOR)).n

\* salaryFactor without the halving of the SemiMonthly cycle
salaryFactor_AlwaysOne(type) == Quotient(1, 1)

\* salaryFactor: 1 for 'mensual', 0.5 otherwise
salaryFactor(type) == IF type = "mensual" THEN Quotient(1, 1) ELSE Quotient(1, 2)

\* retroSalaryPerPeriod, for a positive baseDiff
retroSalaryPerPeriod(d, type) == Times(Quotient(baseDiff(d), 1), salaryFactor(type))

\* the salary part of one period: acc is [details, summary].  The product
\* is positive exactly when baseDiff is.
AddSalary(d, type, period, acc) ==
    IF baseDiff(d) > 0
    THEN LET val == MathRound(retroSalaryPerPeriod(d, type))
         IN  [details |-> Append(acc.details,
                 [CEDULA |-> d.CEDULA, NOMBRE |-> d.NOMBRE,
                  CONCEPTO |-> "Retroactivo sueldo",
                  DETALLE |-> <<"P", "e", "r", "i", "o", "d", "o", " ">>
                              \o formattedStartDate(period),
                  VALOR_A_PAGAR |-> val]),
              summary |-> [acc.summary EXCEPT !.Salario = val]]
    ELSE acc

\* hourlyDiff, for a positive baseDiff
hourlyDiff(d) == Quotient(baseDiff(d), HoursPerMonth)

\* hourlyDiff * type.factor * qty, for a positive baseDiff and qty
OvertimeValue(d, type, qty) ==
    Times(Times(hourlyDiff(d), Quotient(type.factor, 100)), Quotient(qty, 1))

\* otMapping.forEach over the entries from index i on.  With qty > 0 the
\* value is positive exactly when baseDiff is.
RECURSIVE AddOvertime(_, _, _)
AddOvertime(d, i, acc) ==
    IF i > Len(otMapping) THEN acc
    ELSE LET type == otMapping[i]
             qty == OrZero(parseFloat(d[type.key]))
         IN  IF qty.n > 0 /\ baseDiff(d) > 0
             THEN LET roundedVal == MathRound(OvertimeValue(d, type, qty.n))
                  IN  AddOvertime(d, i + 1,
                        [details |-> Append(acc.details,
                            [CEDULA |-> d.CEDULA, NOMBRE |-> d.NOMBRE,
                             CONCEPTO |-> type.label,
                             DETALLE |-> String(qty) \o <<" ", "h", "o", "r", "a", "s">>,
                             VALOR_A_PAGAR |-> roundedVal]),
                         summary |-> [acc.summary EXCEPT ![type.reportValKey] = roundedVal,
                                                         ![type.reportQtyKey] = qty.n]])
             ELSE AddOvertime(d, i + 1, acc)

\* periods.forEach with the overtime added on every period
RECURSIVE ForEachPeriod_OvertimeEveryPeriod(_, _, _, _, _)
ForEachPeriod_OvertimeEveryPeriod(d, type, ps, index, out) ==
    IF index > Len(ps) THEN out
    ELSE LET start == [details |-> out.details, summary |-> EmptySummary(d, ps[index])]
             ot == AddOvertime(d, 1, AddSalary(d, type, ps[index], start))
         IN  ForEachPeriod_OvertimeEveryPeriod(d, type, ps, index + 1,
                 [details |-> ot.details,
                  summaries |-> Append(out.summaries, ot.summary)])

\* periods.forEach with the overtime of the first period added before its
\* salary line
RECURSIVE ForEachPeriod_OvertimeBeforeSalary(_, _, _, _, _)
ForEachPeriod_OvertimeBeforeSalary(d, type, ps, index, out) ==
    IF index > Len(ps) THEN out
    ELSE LET start == [details |-> out.details, summary |-> EmptySummary(d, ps[index])]
             ot == IF index = 1 THEN AddOvertime(d, 1, start) ELSE start
             sal == AddSalary(d, type, ps[index], ot)
         IN  ForEachPeriod_OvertimeBeforeSalary(d, type, ps, index + 1,
                 [details |-> sal.details,
                  summaries |-> Append(out.summaries, sal.summary)])

\* the overtime part of period index: if (index === 0) otMapping.forEach
FirstOvertime(d, index, sal) == IF index = 1 THEN AddOvertime(d, 1, sal) ELSE sal

\* summaries.push(summary), the lines being in ot.details already
PushSummary(out, ot) ==
    [details |-> ot.details, summaries |-> Append(out.summaries, ot.summary)]

\* periods.forEach over the periods from index index on (1-based)
RECURSIVE ForEachPeriod(_, _, _, _, _)
ForEachPeriod(d, type, ps, index, out) ==
    IF index > Len(ps) THEN out
    ELSE LET start == [details |-> out.details, summary |-> EmptySummary(d, ps[index])]
             sal == AddSalary(d, type, ps[index], start)
         IN  ForEachPeriod(d, type, ps, index + 1,
                 PushSummary(out, FirstOvertime(d, index, sal)))

\* calculateRetroactive with the overtime lines built before the periods
\* are looked at
Calculated_OvertimeBeforePeriods(d, type, ps) ==
    IF Len(ps) = 0
    THEN [details |-> AddOvertime(d, 1,
                        [details |-> <<>>,
                         summary |-> EmptySummary(d, [start |-> <<>>, end |-> <<>>])]).details,
          summaries |-> <<>>]
    ELSE ForEachPeriod(d, type, ps, 1, [details |-> <<>>, summaries |-> <<>>])

\* calculateRetroactive once getPeriods has returned ps
Calculated(d, type, ps) ==
    IF Len(ps) = 0 THEN [details |-> <<>>, summaries |-> <<>>]
    ELSE ForEachPeriod(d, type, ps, 1, [details |-> <<>>, summaries |-> <<>>])

----------------------------------------------------------------------------
(* The calls that are made *)

LastYear == 2024

Years == 2023..LastYear

\* the months (1..12) in which a range starts or ends
EdgeMonths == {2, 12}

\* the calendar: the last day of month m (1..12) of year y
CalendarLastDay(y, m) ==
    IF m = 2
    THEN (IF y % 400 = 0 \/ (y % 4 = 0 /\ y % 100 # 0) THEN 29 ELSE 28)
    ELSE <<31, 0, 31, 30, 31, 30, 31, 31, 30, 31, 30, 31>>[m]

\* the days on which a range starts or ends: on, just after and inside the
\* edges of the two halves
EdgeDays(y, m) == {1, 2, 5, 15, 16, 17, 20, CalendarLastDay(y, m)}

Dates ==
    { <<y, m, d>> : y \in Years, m \in EdgeMonths, d \in 1..31 } \cap
    { dt \in (Years \X EdgeMonths \X (1..31)) : dt[3] \in EdgeDays(dt[1], dt[2]) }

Formats == {"YYYY-MM-DD", "DD/MM/YYYY", "DD-MM-YYYY"}

TwoDigits(n) == padStart2(NatToChars(n))

\* a date written in one of the three formats
Written(dt, format) ==
    CASE format = "YYYY-MM-DD" ->
            NatToChars(dt[1]) \o <<"-">> \o TwoDigits(dt[2]) \o <<"-">> \o TwoDigits(dt[3])
      [] format = "DD/MM/YYYY" ->
            TwoDigits(dt[3]) \o <<"/">> \o TwoDigits(dt[2]) \o <<"/">> \o NatToChars(dt[1])
      [] OTHER ->
            TwoDigits(dt[3]) \o <<"-">> \o TwoDigits(dt[2]) \o <<"-">> \o NatToChars(dt[1])

\* every range of Dates in the format of the date picker, and the ranges of
\* FormatDates (across a new year and a leap February) in every format
IsoValues == { Str(Written(dt, "YYYY-MM-DD")) : dt \in Dates }

FormatDates ==
    { dt \in Dates : /\ <<dt[1], dt[2]>> \in {<<2023, 12>>, <<2024, 2>>}
                     /\ dt[3] \in {1, 15, 16, CalendarLastDay(dt[1], dt[2])} }

FormatValues == { Str(Written(dt, f)) : dt \in FormatDates, f \in Formats }

\* Values that are no complete date: a missing cell, the empty string, a
\* numeric cell, and the strings
\*   2024         no separator
\*   2024-02      no day
\*   2023-xx-01   non-numeric month
\*   2024-02-xx   non-numeric day
\*   01/02/xx     non-numeric year, slashes
\*   01/02        no year, slashes
\*   01/xx/2024   non-numeric month, slashes
\*   2024-13-01   month 13
\*   2024-13-31   month 13
\*   2024-00-01   month 0
\*   2024-02-30   day 30 of February
BadValues ==
    { Undefined, Str(<<>>), Num(45292),
      Str(<<"2", "0", "2", "4">>),
      Str(<<"2", "0", "2", "4", "-", "0", "2">>),
      Str(<<"2", "0", "2", "3", "-", "x", "x", "-", "0", "1">>),
      Str(<<"2", "0", "2", "4", "-", "0", "2", "-", "x", "x">>),
      Str(<<"0", "1", "/", "0", "2", "/", "x", "x">>),
      Str(<<"0", "1", "/", "0", "2">>),
      Str(<<"0", "1", "/", "x", "x", "/", "2", "0", "2", "4">>),
      Str(<<"2", "0", "2", "4", "-", "1", "3", "-", "0", "1">>),
      Str(<<"2", "0", "2", "4", "-", "1", "3", "-", "3", "1">>),
      Str(<<"2", "0", "2", "4", "-", "0", "0", "-", "0", "1">>),
      Str(<<"2", "0", "2", "4", "-", "0", "2", "-", "3", "0">>) }

\* the well-formed dates a malformed value is paired with
Partners ==
    { Str(Written(dt, "YYYY-MM-DD")) : dt \in {<<2023, 12, 1>>, <<2024, 2, 29>>, <<2024, 12, 31>>} }

\* hyphenated strings whose first component is just above and at the
\* threshold of the year test
ThresholdPairs ==
    { <<Str(<<"1", "0", "0", "1", "-", "0", "2", "-", "0", "1">>),
        Str(<<"1", "0", "0", "1", "-", "0", "2", "-", "2", "8">>)>>,
      <<Str(<<"1", "0", "0", "0", "-", "0", "2", "-", "0", "1">>),
        Str(<<"1", "0", "0", "0", "-", "0", "2", "-", "0", "1">>)>> }

InputPairs ==
    (IsoValues \X IsoValues)
    \cup ThresholdPairs
    \cup (FormatValues \X FormatValues)
    \cup (BadValues \X (BadValues \cup Partners))
    \cup (Partners \X BadValues)

\* the record of the example of the specification, with the given dates
Record(start, end) ==
    [CEDULA |-> Str(<<"1">>), NOMBRE |-> Str(<<"A">>),
     CODIGO_FICHA_COLABORADOR |-> Undefined,
     SUELDO_ANTERIOR |-> Num(1000000), SUELDO_NUEVO |-> Num(1100000),
     FECHA_INICIO |-> start, FECHA_FIN |-> end,
     HED_CANTIDAD |-> Num(10), HEN_CANTIDAD |-> Undefined,
     HEFD_CANTIDAD |-> Undefined, HEFN_CANTIDAD |-> Undefined,
     RN_CANTIDAD |-> Undefined]

NoResult == [details |-> <<>>, summaries |-> <<>>]

\* the entry of calls for a call that has just been made
Started(record, type) ==
    [record |-> record, type |-> type, outcome |-> "running", result |-> NoResult]

\* calls once the running call has ended
Ended(outcome, res) ==
    [calls EXCEPT ![Len(calls)].outcome = outcome, ![Len(calls)].result = res]

\* the form before anything is typed
BlankForm ==
    [SUELDO_ANTERIOR |-> Str(<<>>), SUELDO_NUEVO |-> Str(<<>>),
     FECHA_INICIO |-> Str(<<>>), FECHA_FIN |-> Str(<<>>),
     HED_CANTIDAD |-> Str(<<>>), HEN_CANTIDAD |-> Str(<<>>),
     HEFD_CANTIDAD |-> Str(<<>>), HEFN_CANTIDAD |-> Str(<<>>),
     RN_CANTIDAD |-> Str(<<>>)]

\* no handleFileUpload activation has ended since the last one began
NoUpload == [status |-> "none"]

\* App's state when it is mounted
AppStart ==
    /\ activeTab = "individual"
    /\ appPayrollType = "mensual"
    /\ results = <<>>
    /\ reportData = <<>>
    /\ isProcessing = FALSE
    /\ error = "null"
    /\ fieldErrors = {}
    /\ formData = BlankForm
    /\ upload = <<>>
    /\ invoked = NoUpload

\* the state in which calculateRetroactive(data, payrollType) is first called
FirstCall ==
    /\ calls = <<Started(data, payrollType)>>
    /\ pc = "call"
    /\ sY = Undefined /\ sM = Undefined /\ sD = Undefined
    /\ eY = Undefined /\ eM = Undefined /\ eD = Undefined
    /\ currentY = Undefined /\ currentM = Undefined
    /\ periods = <<>>
    /\ result = NoResult
    /\ AppStart

Init ==
    /\ \E pair \in InputPairs : data = Record(pair[1], pair[2])
    /\ payrollType \in {"mensual", "quincenal"}
    /\ FirstCall

\* the call with getPeriods' array not created anew
Call_KeepsPeriods ==
    /\ pc = "call"
    /\ LET f == InitialFrame(data.FECHA_INICIO, data.FECHA_FIN, payrollType)
       IN  /\ IF Truthy(data.FECHA_INICIO) /\ Truthy(data.FECHA_FIN)
              THEN /\ sY' = f.sY /\ sM' = f.sM /\ sD' = f.sD
                   /\ eY' = f.eY /\ eM' = f.eM /\ eD' = f.eD
              ELSE UNCHANGED <<sY, sM, sD, eY, eM, eD>>
           /\ IF EarlyReturn(data.FECHA_INICIO, data.FECHA_FIN)
              THEN /\ pc' = "done"
                   /\ UNCHANGED <<currentY, currentM>>
              ELSE /\ pc' = "loop"
                   /\ currentY' = f.currentY /\ currentM' = f.currentM
    /\ UNCHANGED <<data, payrollType, result, calls, periods>>
    /\ UNCHANGED appVars

\* calculateRetroactive calls getPeriods, which returns at once for a falsy
\* argument, else parses both and returns at once or reaches the loop
Call ==
    /\ pc = "call"
    /\ LET f == InitialFrame(data.FECHA_INICIO, data.FECHA_FIN, payrollType)
       IN  /\ IF Truthy(data.FECHA_INICIO) /\ Truthy(data.FECHA_FIN)
              THEN /\ sY' = f.sY /\ sM' = f.sM /\ sD' = f.sD
                   /\ eY' = f.eY /\ eM' = f.eM /\ eD' = f.eD
              ELSE UNCHANGED <<sY, sM, sD, eY, eM, eD>>
           /\ IF EarlyReturn(data.FECHA_INICIO, data.FECHA_FIN)
              THEN /\ pc' = "done"
                   /\ UNCHANGED <<currentY, currentM>>
              ELSE /\ pc' = "loop"
                   /\ currentY' = f.currentY /\ currentM' = f.currentM
    /\ periods' = <<>>
    /\ UNCHANGED <<data, payrollType, result, calls>>
    /\ UNCHANGED appVars

\* one iteration of the loop
Iterate ==
    /\ pc = "loop"
    /\ LoopCond(Frame)
    /\ Len(Body(Frame).periods) <= ArrayLimit
    /\ periods' = Body(Frame).periods
    /\ currentY' = Body(Frame).currentY
    /\ currentM' = Body(Frame).currentM
    /\ UNCHANGED <<data, payrollType, pc, sY, sM, sD, eY, eM, eD, result, calls>>
    /\ UNCHANGED appVars

\* an iteration whose push the engine cannot serve
Overflow ==
    /\ pc = "loop"
    /\ LoopCond(Frame)
    /\ Len(Body(Frame).periods) > ArrayLimit
    /\ pc' = "thrown"
    /\ calls' = Ended("thrown", NoResult)
    /\ UNCHANGED <<data, payrollType, sY, sM, sD, eY, eM, eD,
                   currentY, currentM, periods, result>>
    /\ UNCHANGED appVars

\* the loop condition fails: getPeriods returns periods
Return ==
    /\ pc = "loop"
    /\ ~LoopCond(Frame)
    /\ pc' = "done"
    /\ UNCHANGED <<data, payrollType, sY, sM, sD, eY, eM, eD,
                   currentY, currentM, periods, result, calls>>
    /\ UNCHANGED appVars

\* the rest of calculateRetroactive
Calculate ==
    /\ pc = "done"
    /\ result' = Calculated(data, payrollType, periods)
    /\ calls' = Ended("returned", result')
    /\ pc' = "returned"
    /\ UNCHANGED <<data, payrollType, sY, sM, sD, eY, eM, eD,
                   currentY, currentM, periods>>
    /\ UNCHANGED appVars

Next == Call \/ Iterate \/ Overflow \/ Return \/ Calculate

Spec == Init /\ [][Next]_vars

----------------------------------------------------------------------------
(* The calls that are made, with the salaries and hours varied *)

\* ranges of one, two, three and six periods, a range that is one first
\* half, a range inside a month, which holds no period, and a range whose
\* start is an empty cell
CalcRanges ==
    { <<Str(Written(<<2024, 1, 1>>, "YYYY-MM-DD")), Str(Written(<<2024, 1, 31>>, "YYYY-MM-DD"))>>,
      <<Str(Written(<<2024, 1, 1>>, "YYYY-MM-DD")), Str(Written(<<2024, 1, 15>>, "YYYY-MM-DD"))>>,
      <<Str(Written(<<2024, 1, 1>>, "YYYY-MM-DD")), Str(Written(<<2024, 3, 31>>, "YYYY-MM-DD"))>>,
      <<Str(Written(<<2024, 1, 5>>, "YYYY-MM-DD")), Str(Written(<<2024, 1, 20>>, "YYYY-MM-DD"))>>,
      <<Str(<<>>), Str(Written(<<2024, 1, 31>>, "YYYY-MM-DD"))>> }

\* a range whose start month is not a number
UnreadableRange ==
    <<Str(<<"2", "0", "2", "3", "-", "x", "x", "-", "0", "1">>),
      Str(Written(<<2024, 2, 29>>, "YYYY-MM-DD"))>>

\* <<SUELDO_ANTERIOR, SUELDO_NUEVO>>: numeric cells and text cells, a rise
\* of 100000, 40, 1, 80 and 20, a cut, no change, and cells that are
\* absent, empty, not numeric, or written with thousands separators
SalaryCells ==
    { <<Num(1000000), Num(1100000)>>,
      <<Str(<<"1", "0", "0", "0", "0", "0", "0">>), Str(<<"1", "0", "0", "0", "0", "4", "0">>)>>,
      <<Undefined, Num(1)>>,
      <<Str(<<>>), Num(80)>>,
      <<Str(<<"a", "b", "c">>), Str(<<"2", "0">>)>>,
      <<Num(1100000), Num(1000000)>>,
      <<Num(1000000), Num(1000000)>>,
      <<Num(1000000), Undefined>>,
      <<Num(5), Str(<<>>)>>,
      <<Num(7), Str(<<"a", "b", "c">>)>>,
      <<Str(<<"1", ",", "0", "0", "0", ",", "0", "0", "0">>), Num(1100000)>> }

\* <<HED_CANTIDAD, HEN_CANTIDAD, HEFD_CANTIDAD, HEFN_CANTIDAD>>
OvertimeCells ==
    { <<Num(10), Undefined, Undefined, Undefined>>,
      <<Undefined, Undefined, Undefined, Undefined>>,
      <<Num(36), Num(12), Num(60), Num(20)>>,
      <<Str(<<"1">>), Str(<<>>), Str(<<"a", "b", "c">>), Num(0)>>,
      <<Str(<<"1", "2", "a", "b", "c">>), Num(-5), Str(<<"-", "3">>), Str(<<"2">>)>>,
      <<Str(<<"a", "b", "c">>), Str(<<"x">>), Undefined, Num(1)>>,
      <<Str(<<>>), Num(3), Str(<<"7">>), Str(<<"a", "b", "c">>)>>,
      <<Num(2), Str(<<"a", "b", "c">>), Str(<<>>), Str(<<>>)>> }

CalcRecord(range, salaries, hours) ==
    [Record(range[1], range[2]) EXCEPT
        !.SUELDO_ANTERIOR = salaries[1], !.SUELDO_NUEVO = salaries[2],
        !.HED_CANTIDAD = hours[1], !.HEN_CANTIDAD = hours[2],
        !.HEFD_CANTIDAD = hours[3], !.HEFN_CANTIDAD = hours[4]]

\* the cells of the column RN_CANTIDAD of a sheet that has one
NightSurchargeCells == { Num(8), Str(<<"1", "2">>), Str(<<"a", "b", "c">>) }

CalcRecords ==
    { CalcRecord(r, s, h) : r \in CalcRanges, s \in SalaryCells, h \in OvertimeCells }
    \cup { [CalcRecord(r, <<Num(1000000), Num(1100000)>>, h) EXCEPT !.RN_CANTIDAD = n] :
             r \in CalcRanges, n \in NightSurchargeCells,
             h \in { <<Undefined, Undefined, Undefined, Undefined>>,
                     <<Num(36), Num(12), Num(60), Num(20)>> } }
    \cup { Record(UnreadableRange[1], UnreadableRange[2]) }

InitCalc ==
    /\ data \in CalcRecords
    /\ payrollType \in {"mensual", "quincenal"}
    /\ FirstCall

SpecCalc == InitCalc /\ [][Next]_vars

----------------------------------------------------------------------------
(* Several calls, one after the other *)

MaxCalls == 3

\* <<data, payrollType>> of the calls: one, two and three periods with
\* lines, a range without a period, an empty start cell, and a range on
\* which getPeriods throws
AgainCalls ==
    LET range(a, b) == <<Str(Written(a, "YYYY-MM-DD")), Str(Written(b, "YYYY-MM-DD"))>>
        rise == <<Num(1000000), Num(1100000)>>
        small == <<Str(<<"1", "0", "0", "0", "0", "0", "0">>),
                   Str(<<"1", "0", "0", "0", "0", "4", "0">>)>>
        day == <<Num(10), Undefined, Undefined, Undefined>>
        all == <<Num(36), Num(12), Num(60), Num(20)>>
    IN  { <<CalcRecord(range(<<2024, 1, 1>>, <<2024, 1, 31>>), rise, day), "mensual">>,
          <<CalcRecord(range(<<2024, 1, 1>>, <<2024, 1, 31>>), rise, day), "quincenal">>,
          <<CalcRecord(range(<<2024, 1, 1>>, <<2024, 3, 31>>), small, all), "mensual">>,
          <<CalcRecord(range(<<2024, 1, 5>>, <<2024, 1, 20>>), rise, day), "mensual">>,
          <<CalcRecord(<<Str(<<>>), Str(Written(<<2024, 1, 31>>, "YYYY-MM-DD"))>>, rise, day),
            "quincenal">>,
          <<Record(UnreadableRange[1], UnreadableRange[2]), "mensual">> }

InitAgain ==
    /\ \E c \in AgainCalls : data = c[1] /\ payrollType = c[2]
    /\ FirstCall

\* calculateRetroactive is called again once the call before has returned
\* or thrown.  The locals of the call before are left as they are: they are
\* not the new call's, which must not read them before writing them.
CallAgain ==
    /\ pc \in {"returned", "thrown"}
    /\ Len(calls) < MaxCalls
    /\ \E c \in AgainCalls :
         /\ data' = c[1] /\ payrollType' = c[2]
         /\ calls' = Append(calls, Started(c[1], c[2]))
    /\ pc' = "call"
    /\ UNCHANGED <<sY, sM, sD, eY, eM, eD, currentY, currentM, periods, result>>
    /\ UNCHANGED appVars

NextAgain == Next \/ CallAgain

SpecAgain == InitAgain /\ [][NextAgain]_vars

----------------------------------------------------------------------------
(* The component App *)

\* return { details, summaries }
Normal(c) == [thrown |-> FALSE, details |-> c.details, summaries |-> c.summaries]

\* calculateRetroactive(d, type) as a function of its arguments
calculateRetroactive(d, type) ==
    LET g == getPeriods(d.FECHA_INICIO, d.FECHA_FIN, type)
    IN  IF g.thrown
        THEN [thrown |-> TRUE, details |-> <<>>, summaries |-> <<>>]
        ELSE Normal(Calculated(d, type, g.periods))

\* A Date of the calendar is [year, month, day], month as getMonth() gives
\* it (0..11).

\* checkPayrollValidation without the props payrollType and dateType
checkPayrollValidation_NoProps(date, type, dateType) == TRUE

\* checkPayrollValidation(date) of CustomCalendar, with the props
\* payrollType and dateType ("" when not passed): a day that fails it is
\* disabled
checkPayrollValidation(date, type, dateType) ==
    IF type = "" \/ dateType = "" THEN TRUE
    ELSE LET day == date.day
             lastDay == getDaysInMonth(Num(date.year), Num(date.month)).n
         IN  IF type = "mensual" /\ dateType = "start" THEN day = 1
             ELSE IF type = "mensual" /\ dateType = "end" THEN day = lastDay
             ELSE IF type = "quincenal" /\ dateType = "start" THEN day = 1 \/ day = 16
             ELSE IF type = "quincenal" /\ dateType = "end" THEN day = 15 \/ day = lastDay
             ELSE TRUE

\* what onChange of a calendar writes into formData:
\* `${year}-${month}-${day}`, month and day padded to two digits
onChange(date) ==
    String(Num(date.year)) \o <<"-">> \o padStart2(String(Num(date.month + 1)))
                           \o <<"-">> \o padStart2(String(Num(date.day)))

\* An array of lines or rows is a sequence of runs: items, repeated times
\* times.  A run without items is not kept, so that the empty array is <<>>.
Run(items, times) == IF items = <<>> THEN <<>> ELSE <<[items |-> items, times |-> times]>>

\* what the user may have in the form: the dates come from the calendars,
\* the rest is typed
Forms ==
    LET form(old, new, start, end, hed) ==
            [BlankForm EXCEPT !.SUELDO_ANTERIOR = Str(old), !.SUELDO_NUEVO = Str(new),
                              !.FECHA_INICIO = Str(start), !.FECHA_FIN = Str(end),
                              !.HED_CANTIDAD = Str(hed)]
        low == <<"1", "0", "0", "0", "0", "0", "0">>
        high == <<"1", "1", "0", "0", "0", "0", "0">>
    IN  { BlankForm,
          form(low, high, Written(<<2024, 1, 1>>, "YYYY-MM-DD"),
               Written(<<2024, 1, 31>>, "YYYY-MM-DD"), <<"1", "0">>),
          form(high, low, Written(<<2024, 1, 1>>, "YYYY-MM-DD"),
               Written(<<2024, 1, 31>>, "YYYY-MM-DD"), <<"1", "0">>) }

\* {...formData, CEDULA: '-', NOMBRE: 'Simulacion', CODIGO_FICHA_COLABORADOR: '-'}
IndividualRecord(form) ==
    [f \in DOMAIN form \cup {"CEDULA", "NOMBRE", "CODIGO_FICHA_COLABORADOR"} |->
        CASE f = "CEDULA" -> Str(<<"-">>)
          [] f = "NOMBRE" -> Str(<<"S", "i", "m", "u", "l", "a", "c", "i", "o", "n">>)
          [] f = "CODIGO_FICHA_COLABORADOR" -> Str(<<"-">>)
          [] OTHER -> form[f]]

\* setActiveTab
SetActiveTab ==
    /\ \E tab \in {"individual", "mass"} : activeTab' = tab
    /\ UNCHANGED <<appPayrollType, results, reportData, isProcessing, error,
                   fieldErrors, formData, upload, invoked>>
    /\ UNCHANGED coreVars

\* the Toggle of either tab: setPayrollType
SetPayrollType ==
    /\ \E type \in {"mensual", "quincenal"} : appPayrollType' = type
    /\ UNCHANGED <<activeTab, results, reportData, isProcessing, error,
                   fieldErrors, formData, upload, invoked>>
    /\ UNCHANGED coreVars

\* the inputs and calendars of the individual form: setFormData
SetFormData ==
    /\ activeTab = "individual"
    /\ formData' \in Forms
    /\ UNCHANGED <<activeTab, appPayrollType, results, reportData, isProcessing,
                   error, fieldErrors, upload, invoked>>
    /\ UNCHANGED coreVars

\* handleIndividualCalculate setting the lines but not the report rows
handleIndividualCalculate_KeepsReport ==
    /\ activeTab = "individual"
    /\ LET newErrors == { k \in {"SUELDO_ANTERIOR", "SUELDO_NUEVO", "FECHA_INICIO", "FECHA_FIN"} :
                            ~Truthy(formData[k]) }
       IN  /\ fieldErrors' = newErrors
           /\ IF newErrors # {}
              THEN UNCHANGED <<results, reportData, error>>
              ELSE \E r \in {calculateRetroactive(IndividualRecord(formData), appPayrollType)} :
                   IF r.thrown
                   THEN /\ error' = "Error en el calculo. Verifique los datos."
                        /\ UNCHANGED <<results, reportData>>
                   ELSE IF r.details = <<>>
                   THEN /\ error' = "No se generaron resultados."
                        /\ results' = <<>>
                        /\ reportData' = <<>>
                   ELSE /\ results' = Run(r.details, 1)
                        /\ error' = "null"
                        /\ UNCHANGED reportData
    /\ UNCHANGED <<activeTab, appPayrollType, isProcessing, formData, upload, invoked>>
    /\ UNCHANGED coreVars

handleIndividualCalculate ==
    /\ activeTab = "individual"
    /\ LET newErrors == { k \in {"SUELDO_ANTERIOR", "SUELDO_NUEVO", "FECHA_INICIO", "FECHA_FIN"} :
                            ~Truthy(formData[k]) }
       IN  /\ fieldErrors' = newErrors
           /\ IF newErrors # {}
              THEN UNCHANGED <<results, reportData, error>>
              ELSE \E r \in {calculateRetroactive(IndividualRecord(formData), appPayrollType)} :
                   IF r.thrown
                   THEN /\ error' = "Error en el calculo. Verifique los datos."
                        /\ UNCHANGED <<results, reportData>>
                   ELSE IF r.details = <<>>
                   THEN /\ error' = "No se generaron resultados."
                        /\ results' = <<>>
                        /\ reportData' = <<>>
                   ELSE /\ results' = Run(r.details, 1)
                        /\ reportData' = Run(r.summaries, 1)
                        /\ error' = "null"
    /\ UNCHANGED <<activeTab, appPayrollType, isProcessing, formData, upload, invoked>>
    /\ UNCHANGED coreVars

RowLimit == 10000

\* The files a user may choose.  jsonData, the rows read from the sheet, is
\* a sequence of runs: row, repeated times times.  A cell left empty is an
\* absent key of its row.
Files ==
    LET range(a, b) == <<Str(Written(a, "YYYY-MM-DD")), Str(Written(b, "YYYY-MM-DD"))>>
        low == Str(<<"1", "0", "0", "0", "0", "0", "0">>)
        high == Str(<<"1", "1", "0", "0", "0", "0", "0">>)
        hours == <<Str(<<"1", "0">>), Undefined, Undefined, Undefined>>
        month == CalcRecord(range(<<2024, 1, 1>>, <<2024, 1, 31>>), <<low, high>>, hours)
        half == CalcRecord(range(<<2024, 1, 1>>, <<2024, 1, 15>>), <<low, high>>, hours)
        cut == CalcRecord(range(<<2024, 1, 1>>, <<2024, 1, 31>>), <<high, low>>, hours)
        nosalary == CalcRecord(range(<<2024, 1, 1>>, <<2024, 1, 31>>), <<low, Undefined>>, hours)
        rows(r) == [readable |-> TRUE, jsonData |-> r]
    IN  { [readable |-> FALSE, jsonData |-> <<>>],
          rows(<<>>),
          rows(<<[row |-> month, times |-> RowLimit + 1]>>),
          rows(<<[row |-> month, times |-> RowLimit]>>),
          rows(<<[row |-> nosalary, times |-> 1], [row |-> month, times |-> 1]>>),
          rows(<<[row |-> month, times |-> 1], [row |-> half, times |-> 1]>>),
          rows(<<[row |-> cut, times |-> 1]>>) }

\* jsonData.length
RECURSIVE Length(_)
Length(jsonData) ==
    IF jsonData = <<>> THEN 0 ELSE jsonData[1].times + Length(Tail(jsonData))

\* requiredKeys.filter(key => !(key in firstRow))
missingKeys(firstRow) ==
    { key \in {"FECHA_INICIO", "FECHA_FIN", "SUELDO_ANTERIOR", "SUELDO_NUEVO"} :
        firstRow[key].t = "undefined" }

\* the callback of jsonData.forEach on the rows of a run, r being what
\* calculateRetroactive returns on them and rest what the later rows give:
\* allDetails.push(...details), allSummaries.push(...summaries)
PushRow(run, type, r, rest) ==
    IF r.thrown
    THEN [thrown |-> TRUE, allDetails |-> <<>>, allSummaries |-> <<>>,
          calls |-> <<[row |-> run.row, type |-> type, times |-> 1]>>]
    ELSE [thrown |-> rest.thrown,
          allDetails |-> Run(r.details, run.times) \o rest.allDetails,
          allSummaries |-> Run(r.summaries, run.times) \o rest.allSummaries,
          calls |-> <<[row |-> run.row, type |-> type, times |-> run.times]>> \o rest.calls]

\* jsonData.forEach from run i on: whether a call threw, allDetails,
\* allSummaries and the calls made.  A row on which calculateRetroactive
\* throws ends the loop.
RECURSIVE ForEachRow(_, _, _)
ForEachRow(jsonData, type, i) ==
    IF i > Len(jsonData)
    THEN [thrown |-> FALSE, allDetails |-> <<>>, allSummaries |-> <<>>, calls |-> <<>>]
    ELSE PushRow(jsonData[i], type, calculateRetroactive(jsonData[i].row, type),
                 ForEachRow(jsonData, type, i + 1))

\* handleFileUpload once jsonData.forEach has ended as each tells
AfterForEach(each) ==
    IF each.thrown
    THEN [message |-> "Invalid array length", sets |-> FALSE, allDetails |-> <<>>,
          allSummaries |-> <<>>, calls |-> each.calls]
    ELSE IF each.allDetails = <<>>
    THEN [message |-> "El archivo se proceso pero no se generaron resultados.",
          sets |-> FALSE, allDetails |-> <<>>, allSummaries |-> <<>>, calls |-> each.calls]
    ELSE [message |-> "null", sets |-> TRUE, allDetails |-> each.allDetails,
          allSummaries |-> each.allSummaries, calls |-> each.calls]

\* handleFileUpload from the await on, for one file and the payrollType of
\* the activation: the message it sets (or none), whether it sets results and
\* reportData and to what, and the calls of calculateRetroactive it makes
Processed(file, type) ==
    LET none == [message |-> "null", sets |-> FALSE, allDetails |-> <<>>,
                 allSummaries |-> <<>>, calls |-> <<>>]
    IN  IF ~file.readable
        THEN [none EXCEPT !.message = "Error al procesar el archivo."]
        ELSE IF Length(file.jsonData) = 0
        THEN [none EXCEPT !.message = "El archivo parece estar vacio o no se pudieron leer datos."]
        ELSE IF Length(file.jsonData) > RowLimit
        THEN [none EXCEPT !.message = "El archivo excede el limite de 10.000 filas."]
        ELSE IF missingKeys(file.jsonData[1].row) # {}
        THEN [none EXCEPT !.message = "Faltan columnas requeridas en el archivo."]
        ELSE AfterForEach(ForEachRow(file.jsonData, type, 1))

\* handleFileUpload up to the await: the file input is mounted in the mass
\* tab and disabled while isProcessing
handleFileUpload ==
    /\ activeTab = "mass"
    /\ ~isProcessing
    /\ \E file \in Files :
         upload' = Append(upload, [file |-> file, type |-> appPayrollType])
    /\ isProcessing' = TRUE
    /\ error' = "null"
    /\ results' = <<>>
    /\ reportData' = <<>>
    /\ invoked' = NoUpload
    /\ UNCHANGED <<activeTab, appPayrollType, fieldErrors, formData>>
    /\ UNCHANGED coreVars

\* FileRead calculating with the payrollType selected when the file has been
\* read
FileRead_TypeWhenRead ==
    /\ \E i \in 1..Len(upload) :
         \E p \in {Processed(upload[i].file, appPayrollType)} :
             /\ upload' = SubSeq(upload, 1, i - 1) \o SubSeq(upload, i + 1, Len(upload))
             /\ IF p.sets
                THEN /\ results' = p.allDetails
                     /\ reportData' = p.allSummaries
                     /\ UNCHANGED error
                ELSE /\ error' = p.message
                     /\ UNCHANGED <<results, reportData>>
             /\ invoked' = [status |-> "done", file |-> upload[i].file,
                            type |-> upload[i].type, shown |-> appPayrollType,
                            failed |-> ~p.sets, calls |-> p.calls,
                            left |-> [results |-> results', reportData |-> reportData',
                                      error |-> error']]
    /\ isProcessing' = FALSE
    /\ UNCHANGED <<activeTab, appPayrollType, fieldErrors, formData>>
    /\ UNCHANGED coreVars

\* the file has been read (or could not be): the rest of handleFileUpload.
\* invoked keeps what this activation did and the state it left.
FileRead ==
    /\ \E i \in 1..Len(upload) :
         \E p \in {Processed(upload[i].file, upload[i].type)} :
             /\ upload' = SubSeq(upload, 1, i - 1) \o SubSeq(upload, i + 1, Len(upload))
             /\ IF p.sets
                THEN /\ results' = p.allDetails
                     /\ reportData' = p.allSummaries
                     /\ UNCHANGED error
                ELSE /\ error' = p.message
                     /\ UNCHANGED <<results, reportData>>
             /\ invoked' = [status |-> "done", file |-> upload[i].file,
                            type |-> upload[i].type, shown |-> appPayrollType,
                            failed |-> ~p.sets, calls |-> p.calls,
                            left |-> [results |-> results', reportData |-> reportData',
                                      error |-> error']]
    /\ isProcessing' = FALSE
    /\ UNCHANGED <<activeTab, appPayrollType, fieldErrors, formData>>
    /\ UNCHANGED coreVars

\* the button beside the export button, shown while results is not empty
ClearResults ==
    /\ results # <<>>
    /\ results' = <<>>
    /\ UNCHANGED <<activeTab, appPayrollType, reportData, isProcessing, error,
                   fieldErrors, formData, upload, invoked>>
    /\ UNCHANGED coreVars

\* no call of calculateRetroactive is under way on its own
CoreIdle ==
    /\ data = Record(Undefined, Undefined)
    /\ payrollType = "mensual"
    /\ pc = "idle"
    /\ calls = <<>>
    /\ sY = Undefined /\ sM = Undefined /\ sD = Undefined
    /\ eY = Undefined /\ eM = Undefined /\ eD = Undefined
    /\ currentY = Undefined /\ currentM = Undefined
    /\ periods = <<>>
    /\ result = NoResult

InitApp == CoreIdle /\ AppStart

NextApp ==
    \/ SetActiveTab
    \/ SetPayrollType
    \/ SetFormData
    \/ handleIndividualCalculate
    \/ handleFileUpload
    \/ FileRead
    \/ ClearResults

SpecApp == InitApp /\ [][NextApp]_vars

\* the file is read in the end: the promise of file.arrayBuffer() settles
SpecAppFair == SpecApp /\ WF_vars(FileRead)

----------------------------------------------------------------------------
(* Reading the calls and their results *)

\* getPeriods has returned: periods is its result
Returned == pc \in {"done", "returned"}

\* The calendar date a ten-character string writes, read by position
\* (YYYY-MM-DD, or DD/MM/YYYY and DD-MM-YYYY), as <<year, month, day>>.
ReadDate(chars) ==
    IF chars[5] = "-"
    THEN <<DigitsValue(SubSeq(chars, 1, 4)), DigitsValue(SubSeq(chars, 6, 7)),
           DigitsValue(SubSeq(chars, 9, 10))>>
    ELSE <<DigitsValue(SubSeq(chars, 7, 10)), DigitsValue(SubSeq(chars, 4, 5)),
           DigitsValue(SubSeq(chars, 1, 2))>>

\* v is a calendar date with a four-digit year above 1000, written in one
\* of the three formats
IsDate(v) ==
    /\ v.t = "string"
    /\ Len(v.s) = 10
    /\ \/ /\ v.s[5] = "-" /\ v.s[8] = "-"
          /\ AllDigits(SubSeq(v.s, 1, 4) \o SubSeq(v.s, 6, 7) \o SubSeq(v.s, 9, 10))
       \/ /\ v.s[3] \in {"-", "/"} /\ v.s[6] = v.s[3]
          /\ AllDigits(SubSeq(v.s, 1, 2) \o SubSeq(v.s, 4, 5) \o SubSeq(v.s, 7, 10))
    /\ LET dt == ReadDate(v.s)
       IN  /\ dt[1] > 1000
           /\ dt[2] \in 1..12
           /\ dt[3] \in 1..CalendarLastDay(dt[1], dt[2])

DatesGiven == IsDate(data.FECHA_INICIO) /\ IsDate(data.FECHA_FIN)

StartDate == ReadDate(data.FECHA_INICIO.s)

EndDate == ReadDate(data.FECHA_FIN.s)

\* months counted from year 0, to compare and to walk them
MonthNo(dt) == dt[1] * 12 + (dt[2] - 1)

\* the period from day from to day to of month number k, as getPeriods writes it
ClosedPeriod(k, from, to) ==
    [start |-> Written(<<k \div 12, (k % 12) + 1, from>>, "YYYY-MM-DD"),
     end |-> Written(<<k \div 12, (k % 12) + 1, to>>, "YYYY-MM-DD")]

LastDayOf(k) == CalendarLastDay(k \div 12, (k % 12) + 1)

WholeMonth(k) == ClosedPeriod(k, 1, LastDayOf(k))

\* the numbers of a date string of a period: <<year, month, day>>
Numbers(chars) == MapNumber(Split(chars, "-"))

----------------------------------------------------------------------------
(* Claims *)

\* the months (by number) from the start month to the end month, in order
MonthsWalked ==
    [i \in 1..(MonthNo(EndDate) - MonthNo(StartDate) + 1) |-> MonthNo(StartDate) + i - 1]

\* C1: Monthly cycle: a range of calendar dates from day 1 of a month to the
\* last calendar day of the same or a later month gives exactly one period
\* per month from the start month to the end month, each from day 1 to the
\* month's last calendar day (29 for February of a leap year).
C1_OnePeriodPerMonth ==
    ( /\ Returned
      /\ payrollType = "mensual"
      /\ DatesGiven
      /\ StartDate[3] = 1
      /\ EndDate[3] = CalendarLastDay(EndDate[1], EndDate[2])
      /\ MonthNo(StartDate) <= MonthNo(EndDate) )
    => periods = [i \in DOMAIN MonthsWalked |-> WholeMonth(MonthsWalked[i])]

\* a range from 1 December 2023 to 29 February 2024 has returned its three
\* months, the last one ending on the 29th
C1_Witness ==
    /\ Returned
    /\ payrollType = "mensual"
    /\ DatesGiven
    /\ StartDate = <<2023, 12, 1>>
    /\ EndDate = <<2024, 2, 29>>
    /\ Len(periods) = 3
    /\ periods[3].end = <<"2", "0", "2", "4", "-", "0", "2", "-", "2", "9">>

\* the Monthly rule of a walked month k
MonthQualifies(k) ==
    /\ k # MonthNo(StartDate) \/ StartDate[3] = 1
    /\ k # MonthNo(EndDate) \/ EndDate[3] = LastDayOf(k)

\* C2: Monthly cycle, calendar dates: the result holds the walked months
\* (start month to end month) for which (the month is not the start month or
\* the start day is 1) and (the month is not the end month or the end day is
\* that month's last day), and no other; so the months strictly between are
\* always there, and a range with neither edge aligned inside one month
\* gives nothing.
C2_MonthEmittedIff ==
    (Returned /\ payrollType = "mensual" /\ DatesGiven)
    => LET Keep(k) == MonthQualifies(k)
           kept == SelectSeq(MonthsWalked, Keep)
       IN  periods = [i \in DOMAIN kept |-> WholeMonth(kept[i])]

\* 5 December 2023 to 20 February 2024: only January, the month in between
C2_Witness ==
    /\ Returned
    /\ payrollType = "mensual"
    /\ DatesGiven
    /\ StartDate = <<2023, 12, 5>>
    /\ EndDate = <<2024, 2, 20>>
    /\ periods = <<WholeMonth(MonthNo(<<2024, 1, 1>>))>>

\* C3 as stated: Monthly cycle, the start day is not 1: the result is empty,
\* whatever number of months the range spans.
C3_EmptyWhenStartNotFirst ==
    (Returned /\ payrollType = "mensual" /\ DatesGiven /\ StartDate[3] # 1)
    => periods = <<>>

\* C3 amended: Monthly cycle, the start day is not 1: no period of the start
\* month is returned, even if the end date is the last day of its month, and
\* the result is empty when the range ends in the month it starts in.
C3_StartMonthRejected ==
    (Returned /\ payrollType = "mensual" /\ DatesGiven /\ StartDate[3] # 1)
    => /\ \A i \in DOMAIN periods :
             \/ Numbers(periods[i].start)[1].n * 12 + Numbers(periods[i].start)[2].n - 1
                    > MonthNo(StartDate)
       /\ MonthNo(EndDate) <= MonthNo(StartDate) => periods = <<>>

\* 2 February 2024 to 29 February 2024: the end is aligned, nothing returned
C3_Witness ==
    /\ Returned
    /\ payrollType = "mensual"
    /\ DatesGiven
    /\ StartDate = <<2024, 2, 2>>
    /\ EndDate = <<2024, 2, 29>>
    /\ periods = <<>>
    /\ currentM = Num(2)

FirstHalfQualifies(k) ==
    /\ k # MonthNo(StartDate) \/ StartDate[3] <= 1
    /\ k # MonthNo(EndDate) \/ EndDate[3] >= 15

SecondHalfQualifies(k) ==
    /\ k # MonthNo(StartDate) \/ StartDate[3] <= 16
    /\ k # MonthNo(EndDate) \/ EndDate[3] >= LastDayOf(k)

\* the halves of the walked months from the i-th on that qualify, in order
RECURSIVE HalvesFrom(_)
HalvesFrom(i) ==
    IF i > Len(MonthsWalked) THEN <<>>
    ELSE LET k == MonthsWalked[i]
         IN  (IF FirstHalfQualifies(k) THEN <<ClosedPeriod(k, 1, 15)>> ELSE <<>>)
             \o (IF SecondHalfQualifies(k) THEN <<ClosedPeriod(k, 16, LastDayOf(k))>> ELSE <<>>)
             \o HalvesFrom(i + 1)

\* C5: SemiMonthly cycle, calendar dates: in each walked month the first
\* half is returned iff (not the start month or start day <= 1) and (not the
\* end month or end day >= 15), the second half iff (not the start month or
\* start day <= 16) and (not the end month or end day >= the month's last
\* day), each half on its own.
C5_HalvesDecidedIndependently ==
    (Returned /\ payrollType = "quincenal" /\ DatesGiven)
    => periods = HalvesFrom(1)

\* 16 December 2023 to 15 February 2024: the start month gives only its
\* second half, the end month only its first
C5_Witness ==
    /\ Returned
    /\ payrollType = "quincenal"
    /\ DatesGiven
    /\ StartDate = <<2023, 12, 16>>
    /\ EndDate = <<2024, 2, 15>>
    /\ Len(periods) = 4
    /\ periods[1] = ClosedPeriod(MonthNo(StartDate), 16, 31)
    /\ periods[4] = ClosedPeriod(MonthNo(EndDate), 1, 15)

\* date x is strictly before date y (<<year, month, day>> as numbers)
Before(x, y) ==
    \/ x[1].n < y[1].n
    \/ x[1].n = y[1].n /\ x[2].n < y[2].n
    \/ x[1].n = y[1].n /\ x[2].n = y[2].n /\ x[3].n < y[3].n

\* C6: any input, both cycles: the returned periods are in strict
\* chronological order and do not overlap: each period starts strictly
\* after the previous one ends.
C6_ChronologicalNoOverlap ==
    Returned
    => \A i \in 1..(Len(periods) - 1) :
          Before(Numbers(periods[i].end), Numbers(periods[i + 1].start))

\* a SemiMonthly result of six periods over a new year
C6_Witness ==
    /\ Returned
    /\ payrollType = "quincenal"
    /\ DatesGiven
    /\ StartDate = <<2023, 12, 1>>
    /\ EndDate = <<2024, 2, 29>>
    /\ Len(periods) = 6

\* the month cursor of the loop
Cursor(f) == <<f.currentY, f.currentM>>

\* C7: getPeriods and calculateRetroactive are total: for any field values
\* the month-walking loop terminates and a result is returned without
\* throwing.  Every iteration the loop still has to make moves the cursor
\* (an iteration that leaves it where it is repeats for ever), and no call
\* ends in a throw.
C7_TotalFunction ==
    /\ pc # "thrown"
    /\ (pc = "loop" /\ LoopCond(Frame)) => Cursor(Body(Frame)) # Cursor(Frame)

\* v is a string of three non-empty numeric components separated by '-' or
\* by '/'
IsComplete(v) ==
    /\ v.t = "string"
    /\ \E sep \in {"-", "/"} :
          LET pieces == Split(v.s, sep)
          IN  /\ Len(pieces) = 3
              /\ \A i \in 1..3 : pieces[i] # <<>> /\ AllDigits(pieces[i])

\* C8: a start or end date that is missing, is no string, or is a string
\* that does not parse as a complete date (a missing or non-numeric year,
\* month or day, no separator) makes getPeriods return the empty sequence.
C8_IncompleteDateGivesNothing ==
    (Returned /\ (~IsComplete(data.FECHA_INICIO) \/ ~IsComplete(data.FECHA_FIN)))
    => periods = <<>>

\* date x is strictly before date y (<<year, month, day>> as integers)
Earlier(x, y) ==
    \/ x[1] < y[1]
    \/ x[1] = y[1] /\ x[2] < y[2]
    \/ x[1] = y[1] /\ x[2] = y[2] /\ x[3] < y[3]

\* C9: calendar dates, the end strictly earlier than the start, both
\* cycles: the call does not throw, getPeriods returns the empty sequence
\* and calculateRetroactive returns empty details and summaries.
C9_EndBeforeStartGivesNothing ==
    (DatesGiven /\ Earlier(EndDate, StartDate))
    => /\ pc # "thrown"
       /\ periods = <<>>
       /\ result = [details |-> <<>>, summaries |-> <<>>]

\* the 16th to the 15th of February 2024, SemiMonthly: the loop has walked
\* the month and calculateRetroactive has returned
C9_Witness ==
    /\ pc = "returned"
    /\ payrollType = "quincenal"
    /\ DatesGiven
    /\ StartDate = <<2024, 2, 16>>
    /\ EndDate = <<2024, 2, 15>>
    /\ currentM = Num(2)
    /\ result = [details |-> <<>>, summaries |-> <<>>]

\* what a hyphenated string of three numeric components is read as: in
\* the order written when the first exceeds 1000, reversed otherwise
HyphenatedReadAs(v, parsed) ==
    (v.t = "string" /\ Includes(v.s, "-") /\ IsComplete(v))
    => LET n == MapNumber(Split(v.s, "-"))
       IN  parsed = IF n[1].n > 1000 THEN <<n[1], n[2], n[3]>>
                    ELSE <<n[3], n[2], n[1]>>

\* C10: a calendar date with a year above 1000 written as YYYY-MM-DD,
\* DD/MM/YYYY or DD-MM-YYYY, the start and the end each in its own format,
\* is parsed to the same year, month and day, and getPeriods returns what it
\* returns for the two dates written as YYYY-MM-DD; a hyphenated string is
\* read as YYYY-MM-DD exactly when its first component exceeds 1000.
C10_FormatIndependent ==
    /\ (pc # "call" /\ DatesGiven)
       => /\ <<sY, sM, sD>> = <<Num(StartDate[1]), Num(StartDate[2]), Num(StartDate[3])>>
          /\ <<eY, eM, eD>> = <<Num(EndDate[1]), Num(EndDate[2]), Num(EndDate[3])>>
          /\ Returned =>
                [thrown |-> FALSE, periods |-> periods]
                   = getPeriods(Str(Written(StartDate, "YYYY-MM-DD")),
                                Str(Written(EndDate, "YYYY-MM-DD")), payrollType)
    /\ (pc # "call" /\ Truthy(data.FECHA_INICIO) /\ Truthy(data.FECHA_FIN))
       => /\ HyphenatedReadAs(data.FECHA_INICIO, <<sY, sM, sD>>)
          /\ HyphenatedReadAs(data.FECHA_FIN, <<eY, eM, eD>>)

\* a start written DD-MM-YYYY and an end written DD/MM/YYYY have given the
\* three months of the range
C10_Witness ==
    /\ Returned
    /\ payrollType = "mensual"
    /\ data.FECHA_INICIO = Str(<<"0", "1", "-", "1", "2", "-", "2", "0", "2", "3">>)
    /\ data.FECHA_FIN = Str(<<"2", "9", "/", "0", "2", "/", "2", "0", "2", "4">>)
    /\ Len(periods) = 3
    /\ periods[1] = WholeMonth(MonthNo(<<2023, 12, 1>>))


----------------------------------------------------------------------------
(* calculateRetroactive: C11 .. C20 *)

\* the call has returned: result is what calculateRetroactive returned
Finished == pc = "returned"

\* the quantity read from an overtime cell
Hours(key) == OrZero(parseFloat(data[key])).n

\* C11: whenever getPeriods returns no periods, calculateRetroactive returns
\* empty details and empty summaries, whatever the salaries and hours are.
C11_EmptyWhenNoPeriods ==
    Finished /\ periods = <<>>
        => result.details = <<>> /\ result.summaries = <<>>

\* no period, although the salary rose and Day hours were worked
C11_Witness ==
    /\ Finished /\ periods = <<>>
    /\ baseDiff(data) > 0 /\ Hours("HED_CANTIDAD") > 0
    /\ result = NoResult


\* new salary minus previous salary, as calculateRetroactive reads them
Delta == baseDiff(data)

\* the detail lines of one concept, in the order they were appended
LinesOf(concept) == SelectSeq(result.details, LAMBDA line : line.CONCEPTO = concept)

SalaryLines == LinesOf("Retroactivo sueldo")

\* the quotient num / den of whole numbers (num >= 0, den > 0) rounded to
\* the nearest whole number, halves away from zero
RoundHalfAway(num, den) == (2 * num + den) \div (2 * den)

\* round(delta x factor): factor 1 for Monthly, 0.5 for SemiMonthly
RoundedSalary == RoundHalfAway(Delta, IF payrollType = "mensual" THEN 1 ELSE 2)

\* DD/MM/YYYY of a period's start, read by position from YYYY-MM-DD
StartWritten(period) ==
    SubSeq(period.start, 9, 10) \o <<"/">> \o SubSeq(period.start, 6, 7)
        \o <<"/">> \o SubSeq(period.start, 1, 4)

\* C12: a range of N periods and a positive salary delta give exactly N
\* 'Retroactivo sueldo' lines, one per period, and N summary rows; every
\* salary line's amount and every row's salary field is round(delta x factor),
\* factor 1 for Monthly and 0.5 for SemiMonthly.
C12_SalaryLinePerPeriod ==
    Finished /\ Delta > 0
        => /\ Len(SalaryLines) = Len(periods)
           /\ Len(result.summaries) = Len(periods)
           /\ \A i \in 1..Len(periods) :
                /\ SalaryLines[i].VALOR_A_PAGAR = RoundedSalary
                /\ SalaryLines[i].DETALLE =
                       <<"P", "e", "r", "i", "o", "d", "o", " ">> \o StartWritten(periods[i])
                /\ result.summaries[i].Salario = RoundedSalary

\* delta 100,000, SemiMonthly, 2024-01-01..2024-01-15: one period, 50,000
C12_Witness ==
    /\ Finished /\ Delta = 100000 /\ payrollType = "quincenal"
    /\ data.FECHA_INICIO = Str(<<"2", "0", "2", "4", "-", "0", "1", "-", "0", "1">>)
    /\ data.FECHA_FIN = Str(<<"2", "0", "2", "4", "-", "0", "1", "-", "1", "5">>)
    /\ Len(periods) = 1 /\ Len(SalaryLines) = 1
    /\ SalaryLines[1].VALOR_A_PAGAR = 50000
    /\ result.summaries[1].Salario = 50000


\* C13: whatever the salary delta (positive, zero or negative) and the
\* overtime quantities, there is exactly one summary row per period returned
\* by getPeriods, in the same order, the i-th row carrying the i-th period's
\* start date.
C13_SummaryRowPerPeriod ==
    Finished
        => /\ Len(result.summaries) = Len(periods)
           /\ \A i \in 1..Len(periods) :
                result.summaries[i].Periodo = StartWritten(periods[i])

\* a salary cut over six half-month periods: six rows, the fourth for
\* 16/02/2024
C13_Witness ==
    /\ Finished /\ Delta < 0
    /\ Len(periods) = 6 /\ Len(result.summaries) = 6
    /\ result.summaries[4].Periodo = <<"1", "6", "/", "0", "2", "/", "2", "0", "2", "4">>


OvertimeLabels ==
    {"Retroactivo HE diurna", "Retroactivo HE nocturna",
     "Retroactivo HE festiva diurna", "Retroactivo HE festiva nocturna"}

\* the eight overtime fields of a summary row
OvertimeFields ==
    {"HED_valor", "HED_cantidad", "HEN_valor", "HEN_cantidad",
     "HEFD_valor", "HEFD_cantidad", "HEFN_valor", "HEFN_cantidad"}

\* C14: in one call each overtime label appears in at most one detail line,
\* however many periods there are; overtime amounts and quantities are set
\* only on the first period's summary row, and on every later row all eight
\* overtime fields are 0.
C14_OvertimeOnFirstPeriodOnly ==
    Finished
        => /\ \A label \in OvertimeLabels : Len(LinesOf(label)) <= 1
           /\ \A i \in 2..Len(result.summaries) :
                \A field \in OvertimeFields : result.summaries[i][field] = 0

\* six periods and hours in all four categories: four overtime lines, all
\* on the first row
C14_Witness ==
    /\ Finished /\ Len(periods) = 6
    /\ \A label \in OvertimeLabels : Len(LinesOf(label)) = 1
    /\ \A field \in OvertimeFields : result.summaries[1][field] > 0
    /\ \A field \in OvertimeFields : result.summaries[6][field] = 0


\* the four overtime categories: quantity cell, label, summary fields, and
\* the factor in hundredths (Day 1.25, Night 1.75, HolidayDay 2.05,
\* HolidayNight 2.55)
Categories ==
    { [key |-> "HED_CANTIDAD", label |-> "Retroactivo HE diurna",
       val |-> "HED_valor", qty |-> "HED_cantidad", factor |-> 125],
      [key |-> "HEN_CANTIDAD", label |-> "Retroactivo HE nocturna",
       val |-> "HEN_valor", qty |-> "HEN_cantidad", factor |-> 175],
      [key |-> "HEFD_CANTIDAD", label |-> "Retroactivo HE festiva diurna",
       val |-> "HEFD_valor", qty |-> "HEFD_cantidad", factor |-> 205],
      [key |-> "HEFN_CANTIDAD", label |-> "Retroactivo HE festiva nocturna",
       val |-> "HEFN_valor", qty |-> "HEFN_cantidad", factor |-> 255] }


\* amount is a whole number nearest to (delta / 240) x factor x q, the
\* product taken exactly (delta > 0, q > 0).  The whole multiples of 24000
\* in delta are set apart so that every intermediate number stays small.
IsNearest(amount, delta, factor, q) ==
    LET whole == (delta \div 24000) * factor * q
        rest == (delta % 24000) * factor * q
        off == (amount - whole) * 24000 - rest
    IN  /\ 2 * off <= 24000
        /\ -2 * off <= 24000

ExactAmount(delta, factor, q) ==
    (delta \div 24000) * factor * q
        + RoundHalfAway((delta % 24000) * factor * q, 24000)

\* the rounded amount of a category is strictly positive
OvertimeDue(c) ==
    Delta > 0 /\ Hours(c.key) > 0 /\ ExactAmount(Delta, c.factor, Hours(c.key)) > 0

\* C16: a detail line is emitted if and only if its rounded amount is
\* strictly positive: a salary line for a period iff round(delta x factor) > 0,
\* an overtime line iff its rounded amount > 0; so every VALOR_A_PAGAR is a
\* whole number >= 1, and a zero or negative amount produces no line and
\* leaves the summary fields at 0.
C16_LineIffRoundedPositive ==
    Finished /\ periods # <<>>
        => /\ \A i \in 1..Len(result.details) : result.details[i].VALOR_A_PAGAR >= 1
           /\ SalaryLines # <<>> <=> (Delta > 0 /\ RoundedSalary > 0)
           /\ \A c \in Categories :
                /\ LinesOf(c.label) # <<>> <=> OvertimeDue(c)
                /\ ~OvertimeDue(c)
                     => /\ result.summaries[1][c.val] = 0
                        /\ result.summaries[1][c.qty] = 0


\* C17: all or nothing: calculateRetroactive returns empty details if and
\* only if it returns empty summaries.
C17_AllOrNothing ==
    Finished => (result.details = <<>> <=> result.summaries = <<>>)


\* C18: every emitted amount, salary and overtime, is the exact unrounded
\* product rounded half away from zero to a whole unit, the rounding applied
\* once after all multiplications: neither delta / 240 nor delta x factor
\* loses anything before it is multiplied or compared.
C18_RoundedOnceFromExactProduct ==
    Finished
        => /\ \A i \in 1..Len(SalaryLines) :
                SalaryLines[i].VALOR_A_PAGAR = RoundedSalary
           /\ \A c \in Categories :
                \A i \in 1..Len(LinesOf(c.label)) :
                    LinesOf(c.label)[i].VALOR_A_PAGAR
                        = ExactAmount(Delta, c.factor, Hours(c.key))


\* the calls that have ended
Ended_Calls == { i \in 1..Len(calls) : calls[i].outcome # "running" }

\* C19: two calls with the same record and cycle return the same details and
\* summaries, whatever calls were made in between: nothing is kept from one
\* call to the next, and the record handed in is not modified.
C19_Deterministic ==
    /\ data = calls[Len(calls)].record
    /\ \A i, j \in Ended_Calls :
         calls[i].record = calls[j].record /\ calls[i].type = calls[j].type
            => calls[i].outcome = calls[j].outcome /\ calls[i].result = calls[j].result

\* the same call made first and third, with a different call, returning
\* something else, in between
C19_Witness ==
    /\ Len(calls) = 3 /\ Ended_Calls = {1, 2, 3}
    /\ calls[1].record = calls[3].record /\ calls[1].type = calls[3].type
    /\ calls[2].record # calls[1].record
    /\ calls[1].result.details # <<>>
    /\ calls[2].result.details # <<>>
    /\ calls[2].result # calls[1].result
    /\ calls[3].result = calls[1].result


\* the cells calculateRetroactive reads as numbers
NumericFields ==
    {"SUELDO_ANTERIOR", "SUELDO_NUEVO",
     "HED_CANTIDAD", "HEN_CANTIDAD", "HEFD_CANTIDAD", "HEFN_CANTIDAD"}

\* chars writes a whole number: digits, with or without a sign before them
WritesNumber(chars) ==
    LET body == IF chars # <<>> /\ chars[1] \in {"-", "+"} THEN Tail(chars) ELSE chars
    IN  body # <<>> /\ \A i \in 1..Len(body) : IsDigit(body[i])

\* a cell that is absent, empty, or text that is not a number
NotNumeric(v) ==
    \/ v.t = "undefined"
    \/ v.t = "string" /\ ~WritesNumber(v.s)

\* C20: an absent, empty or non-numeric value of SUELDO_ANTERIOR,
\* SUELDO_NUEVO or of one of the four overtime quantities is treated exactly
\* as 0: the result is the result with that field set to 0.
C20_NotNumericReadAsZero ==
    Finished
        => \A field \in NumericFields :
             NotNumeric(data[field])
                => result = Calculated([data EXCEPT ![field] = Num(0)], payrollType, periods)


----------------------------------------------------------------------------
(* C21 .. C30 *)

\* the place of a detail line in the order of the output: the period it
\* belongs to (overtime lines belong to the first), then salary before Day,
\* Night, HolidayDay and HolidayNight
RankOf(line) ==
    CASE line.CONCEPTO = "Retroactivo sueldo" -> 0
      [] line.CONCEPTO = "Retroactivo HE diurna" -> 1
      [] line.CONCEPTO = "Retroactivo HE nocturna" -> 2
      [] line.CONCEPTO = "Retroactivo HE festiva diurna" -> 3
      [] OTHER -> 4

PeriodOf(line) ==
    IF line.CONCEPTO = "Retroactivo sueldo"
    THEN CHOOSE k \in 1..Len(periods) :
            line.DETALLE = <<"P", "e", "r", "i", "o", "d", "o", " ">> \o StartWritten(periods[k])
    ELSE 1

ComesBefore(a, b) ==
    \/ PeriodOf(a) < PeriodOf(b)
    \/ PeriodOf(a) = PeriodOf(b) /\ RankOf(a) < RankOf(b)

\* C21: within one record's output the detail lines follow the periods'
\* chronological order: salary lines in period order, and all overtime lines,
\* in the order Day, Night, HolidayDay, HolidayNight, after the first
\* period's salary line and before the second period's.
C21_DetailsInPeriodOrder ==
    Finished
        => /\ \A i \in 1..Len(result.details) :
                result.details[i].CONCEPTO = "Retroactivo sueldo"
                    => \E k \in 1..Len(periods) :
                         result.details[i].DETALLE =
                             <<"P", "e", "r", "i", "o", "d", "o", " ">> \o StartWritten(periods[k])
           /\ \A i, j \in 1..Len(result.details) :
                i < j => ComesBefore(result.details[i], result.details[j])
           /\ \A c \in Categories :
                LinesOf(c.label) # <<>> => SalaryLines # <<>>

\* three periods and hours in all four categories: salary, Day, Night,
\* HolidayDay, HolidayNight, salary, salary
C21_Witness ==
    /\ Finished /\ Len(periods) = 3
    /\ [i \in 1..Len(result.details) |-> RankOf(result.details[i])] = <<0, 1, 2, 3, 4, 0, 0>>
    /\ [i \in 1..Len(result.details) |-> PeriodOf(result.details[i])] = <<1, 1, 1, 1, 1, 2, 3>>


\* a handleFileUpload activation has ended
Uploaded == invoked.status = "done"

\* the row-count check or the required-column check fails on the rows read
\* from file
Rejected(file) ==
    /\ file.readable
    /\ \/ Length(file.jsonData) < 1
       \/ Length(file.jsonData) > RowLimit
       \/ missingKeys(file.jsonData[1].row) # {}

\* C22, first half: an upload that called calculateRetroactive had read
\* between 1 and 10,000 rows, the first of them with the four required
\* columns.
C22_CoreOnlyAfterChecks ==
    (Uploaded /\ invoked.calls # <<>>) =>
        /\ invoked.file.readable
        /\ Length(invoked.file.jsonData) \in 1..RowLimit
        /\ missingKeys(invoked.file.jsonData[1].row) = {}

\* C22: calculateRetroactive is called on the rows of a batch only after the
\* row-count check and the required-column check have passed; an upload on
\* which either check fails calls it for no row, sets an error message, and
\* ends with results and reportData empty.
C22_RejectedBatchLeavesNothing ==
    /\ C22_CoreOnlyAfterChecks
    /\ (Uploaded /\ Rejected(invoked.file)) =>
        /\ invoked.calls = <<>>
        /\ invoked.left.error # "null"
        /\ invoked.left.results = <<>>
        /\ invoked.left.reportData = <<>>

\* C22 without its last part: what does hold of an upload on which a check
\* fails
C22_RejectedBatchCallsNothing ==
    (Uploaded /\ Rejected(invoked.file)) =>
        /\ invoked.calls = <<>>
        /\ invoked.left.error # "null"


\* C23: every row of one uploaded file is calculated with the payrollType
\* that was selected when the upload started, whatever is selected when the
\* file has been read; the lines and the report rows the upload sets are
\* those of that payrollType.
C23_OneCyclePerBatch ==
    Uploaded =>
        /\ \A k \in 1..Len(invoked.calls) : invoked.calls[k].type = invoked.type
        /\ ~invoked.failed =>
            /\ invoked.left.results
                 = ForEachRow(invoked.file.jsonData, invoked.type, 1).allDetails
            /\ invoked.left.reportData
                 = ForEachRow(invoked.file.jsonData, invoked.type, 1).allSummaries

\* the payroll type was toggled while a file of several rows was read, and
\* the other type would have given other lines
C23_Witness ==
    /\ Uploaded
    /\ invoked.shown # invoked.type
    /\ Len(invoked.calls) >= 2
    /\ ~invoked.failed
    /\ ForEachRow(invoked.file.jsonData, invoked.shown, 1).allDetails
         # invoked.left.results


\* C24: the output of calculateRetroactive is the output for the same record
\* without its RN_CANTIDAD, and for the same record with any other
\* RN_CANTIDAD; no line carries the label of the night surcharge, and every
\* line is the salary line or a line of one of the four overtime categories.
C24_NightSurchargeIgnored ==
    Finished =>
        /\ \A n \in NightSurchargeCells \cup {Undefined} :
             Calculated([data EXCEPT !.RN_CANTIDAD = n], payrollType, periods) = result
        /\ \A i \in 1..Len(result.details) :
             /\ result.details[i].CONCEPTO # "Retroactivo recargo nocturno"
             /\ result.details[i].CONCEPTO \in {"Retroactivo sueldo"} \cup OvertimeLabels

\* a record with night-surcharge hours, a rise and periods has been
\* calculated
C24_Witness ==
    /\ Finished
    /\ Truthy(parseFloat(data.RN_CANTIDAD))
    /\ baseDiff(data) > 0
    /\ Len(periods) > 0
    /\ Len(result.details) > 0


\* date x is on or before date y (<<year, month, day>>)
OnOrBefore(x, y) ==
    \/ x[1] < y[1]
    \/ x[1] = y[1] /\ x[2] < y[2]
    \/ x[1] = y[1] /\ x[2] = y[2] /\ x[3] <= y[3]

\* the aligned periods of month number k under a payroll type, as
\* <<first day, last day>>
AlignedIn(type, k) ==
    IF type = "mensual" THEN {<<1, LastDayOf(k)>>}
    ELSE {<<1, 15>>, <<16, LastDayOf(k)>>}

\* the aligned periods of the years of the range that lie inside the closed
\* interval from StartDate to EndDate
AlignedInside ==
    { ClosedPeriod(al[1], al[2][1], al[2][2]) :
        al \in { x \in UNION { {k} \X AlignedIn(payrollType, k) :
                               k \in (StartDate[1] * 12)..(EndDate[1] * 12 + 11) } :
                   /\ OnOrBefore(StartDate, <<x[1] \div 12, (x[1] % 12) + 1, x[2][1]>>)
                   /\ OnOrBefore(<<x[1] \div 12, (x[1] % 12) + 1, x[2][2]>>, EndDate) } }

\* C25: for calendar dates, the periods getPeriods returns are exactly the
\* aligned periods (whole months, or the halves 1-15 and 16-last) that lie
\* inside the closed interval from start to end, each once.
C25_ExactlyAlignedInside ==
    (Returned /\ DatesGiven) =>
        /\ { periods[i] : i \in 1..Len(periods) } = AlignedInside
        /\ Len(periods) = Cardinality(AlignedInside)

\* 16 December 2023 to 15 February 2024, SemiMonthly: four halves, the two
\* of January among them
C25_Witness ==
    /\ Returned
    /\ DatesGiven
    /\ payrollType = "quincenal"
    /\ StartDate = <<2023, 12, 16>>
    /\ EndDate = <<2024, 2, 15>>
    /\ Len(periods) = 4
    /\ AlignedInside # {}


\* the numbers a date string of a period writes, as <<year, month, day>>
PeriodDate(chars) ==
    LET n == Numbers(chars) IN <<n[1].n, n[2].n, n[3].n>>

\* dt is a day of the calendar
IsCalendarDate(dt) ==
    /\ dt[2] \in 1..12
    /\ dt[3] \in 1..CalendarLastDay(dt[1], dt[2])

\* the calendar day after dt
DayAfter(dt) ==
    IF dt[3] < CalendarLastDay(dt[1], dt[2]) THEN <<dt[1], dt[2], dt[3] + 1>>
    ELSE IF dt[2] < 12 THEN <<dt[1], dt[2] + 1, 1>>
    ELSE <<dt[1] + 1, 1, 1>>

\* C26: the returned periods form one run without gaps: each period after
\* the first starts on the calendar day that follows the end of the period
\* before it.
C26_GapFree ==
    Returned =>
        \A i \in 1..(Len(periods) - 1) :
            /\ IsCalendarDate(PeriodDate(periods[i].end))
            /\ PeriodDate(periods[i + 1].start) = DayAfter(PeriodDate(periods[i].end))

\* C26 for calendar dates only
C26_GapFreeForDates == DatesGiven => C26_GapFree


\* C27: every returned period denotes real calendar dates, whatever the
\* input strings: its month is within 1..12, its start day is 1 or 16, and
\* its end day is 15 or the last day of that month of that year.
C27_RealCalendarDates ==
    Returned =>
        \A i \in 1..Len(periods) :
            LET s == PeriodDate(periods[i].start)
                e == PeriodDate(periods[i].end)
            IN  /\ s[2] \in 1..12
                /\ e[2] \in 1..12
                /\ s[3] \in {1, 16}
                /\ e[3] \in {15, CalendarLastDay(e[1], e[2])}

\* C27 for calendar dates only
C27_RealForDates == DatesGiven => C27_RealCalendarDates


\* what one calculation shows: the lines and the report rows of one click
\* on the calculate button, or of one uploaded file, that produced lines
Calculations ==
    { [results |-> Run(calculateRetroactive(IndividualRecord(c[1]), c[2]).details, 1),
       reportData |-> Run(calculateRetroactive(IndividualRecord(c[1]), c[2]).summaries, 1)] :
        c \in { x \in Forms \X {"mensual", "quincenal"} :
                  /\ \A k \in {"SUELDO_ANTERIOR", "SUELDO_NUEVO", "FECHA_INICIO", "FECHA_FIN"} :
                        Truthy(x[1][k])
                  /\ calculateRetroactive(IndividualRecord(x[1]), x[2]).details # <<>> } }
    \cup
    { [results |-> Processed(c[1], c[2]).allDetails,
       reportData |-> Processed(c[1], c[2]).allSummaries] :
        c \in { x \in Files \X {"mensual", "quincenal"} : Processed(x[1], x[2]).sets } }

\* C28: in every state of App, when results is not empty, reportData is not
\* empty and the two are the lines and the report rows of one and the same
\* calculation.
C28_ExportMatchesLines ==
    results # <<>> =>
        /\ reportData # <<>>
        /\ [results |-> results, reportData |-> reportData] \in Calculations

\* an upload set lines, and an individual calculation has replaced them
C28_Witness ==
    /\ Uploaded
    /\ ~invoked.failed
    /\ results # <<>>
    /\ results # invoked.left.results
    /\ reportData # invoked.left.reportData


\* C29, second part: while isProcessing the file input is disabled, so one
\* activation of handleFileUpload at most waits for its file
C29_OneUploadInFlight ==
    /\ Len(upload) <= 1
    /\ isProcessing <=> upload # <<>>

\* C29, first part: while isProcessing an activation waits for its file,
\* so that the rest of handleFileUpload can run; when none waits any more,
\* isProcessing is false (the finally block)
C29_UploadCanEnd ==
    /\ isProcessing => upload # <<>>
    /\ (Uploaded /\ upload = <<>>) => ~isProcessing

\* every upload that has started leaves isProcessing false in the end
C29_EventuallyIdle == isProcessing ~> ~isProcessing

\* C29: an upload that has started ends with isProcessing false; at most
\* one upload is in flight; and an upload that fails (the file cannot be
\* read, a check rejects it, a row throws, or no line results) ends with
\* results and reportData empty and an error that is not null.
C29_FailedUploadLeavesNothing ==
    /\ C29_OneUploadInFlight
    /\ C29_UploadCanEnd
    /\ (Uploaded /\ invoked.failed) =>
        /\ invoked.left.error # "null"
        /\ invoked.left.results = <<>>
        /\ invoked.left.reportData = <<>>


\* the Date of a calendar date <<year, month, day>>
AsDate(dt) == [year |-> dt[1], month |-> dt[2] - 1, day |-> dt[3]]

\* FECHA_INICIO and FECHA_FIN are what the two calendars write for days that
\* can be selected under the payroll type of the call, the first on or
\* before the second
Selected ==
    /\ DatesGiven
    /\ data.FECHA_INICIO.s = onChange(AsDate(StartDate))
    /\ data.FECHA_FIN.s = onChange(AsDate(EndDate))
    /\ checkPayrollValidation(AsDate(StartDate), payrollType, "start")
    /\ checkPayrollValidation(AsDate(EndDate), payrollType, "end")
    /\ OnOrBefore(StartDate, EndDate)

\* C30: a start date and an end date that can be selected in the calendars
\* under a payroll type, the start on or before the end, make getPeriods
\* under that type return at least one period; the first period starts on
\* the start date and the last ends on the end date.
C30_CalendarAndSegmenterAgree ==
    (Returned /\ Selected) =>
        /\ Len(periods) >= 1
        /\ periods[1].start = data.FECHA_INICIO.s
        /\ periods[Len(periods)].end = data.FECHA_FIN.s

\* 16 December 2023 to 15 February 2024 selected under SemiMonthly
C30_Witness ==
    /\ Returned
    /\ Selected
    /\ payrollType = "quincenal"
    /\ StartDate[3] = 16
    /\ EndDate[3] = 15
    /\ MonthNo(EndDate) = MonthNo(StartDate) + 2
    /\ periods[1].start = data.FECHA_INICIO.s

====
